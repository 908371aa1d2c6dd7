------------------------- MODULE QueueSocketProofs --------------------------
(***************************************************************************)
(* What is proved of the persistent-storage queue, of the sockets, of the   *)
(* copies of files and of the tree of files.                                *)
(***************************************************************************)
EXTENDS PQueue, Sockets, FileCopy, FileTree,
        SequenceTheorems, FiniteSetTheorems, WellFoundedInduction, TLAPS

-----------------------------------------------------------------------------
(* The ring, for any numbers of threads that push and pop, any length and   *)
(* any number of pushes: the two sides never touch the same slot, and the   *)
(* ring is a bounded first-in first-out queue; and, whatever call fails at  *)
(* whatever stage, a queue and an array of any size keep exactly the        *)
(* resources of the stages they have passed.                                *)

\* A place in the ring that lies at most one round ahead.
Wrapped(n) == IF n < MaxLength THEN n ELSE n - MaxLength

LEMMA WrapOnce ==
    /\ MaxLength \in Nat \ {0}
    /\ \A n \in Nat : n < 2 * MaxLength => n % MaxLength = Wrapped(n)
BY PQueueAssumption DEF Wrapped

-----------------------------------------------------------------------------
(* The inductive invariant.                                                  *)

Moving(side) == \E t \in side : thread[t].at = "move"

\* Where the next element will be stored, once the last one that was counted
\* has moved the tail.
NextFree == IF Moving(Producers) THEN Following(tail) ELSE tail

RingTypeOK ==
    /\ numElements \in 0..MaxLength
    /\ head \in Slots /\ tail \in Slots
    /\ memory \in [Slots -> Data \cup {Null}]
    /\ owner \in OwnerType
    /\ thread \in [Threads -> ThreadType]
    /\ pushes \in 0..MaxPushes
    /\ popped \in Seq(Data)

\* Each side has at most one thread inside a call: the one with its mutex.
OnePerSide ==
    /\ \A p \in Producers : ~IsIdle(p) <=> owner.push = p
    /\ \A c \in Consumers : ~IsIdle(c) <=> owner.pop = c

\* From the head on, as many slots as are counted hold data, and the tail is
\* the slot behind them.
RingOrder ==
    /\ NextFree = Wrapped(Oldest + numElements)
    /\ \A i \in 1..numElements : memory[Wrapped(Oldest + i - 1)] \in Data

\* Whoever pushes has found room, and nobody else takes it away; whoever pops
\* has found as many elements as it is going to take.
PushingOf(p) ==
    /\ thread[p].at # "idle" => thread[p].at \in {"check", "slot", "copy", "count", "move"}
    /\ thread[p].at \in {"check", "slot", "copy", "count"} => pushes < MaxPushes
    /\ thread[p].at \in {"slot", "copy", "count"} => numElements < MaxLength
    /\ thread[p].at = "count" => memory[tail] = pushes + 1
PoppingOf(c) ==
    /\ thread[c].at \in {"slot", "copy", "count"} => thread[c].todo \in 1..numElements
    /\ thread[c].at = "move" => thread[c].todo \in 1..numElements + 1
    /\ thread[c].at = "count" => thread[c].data = memory[head]

\* A queue that is not set up is empty and not in use.
UnusedUntilSetUp ==
    life.valid # "valid" => Quiet /\ numElements = 0 /\ head = 0 /\ tail = 0

RingInv ==
    /\ RingTypeOK
    /\ OnePerSide
    /\ RingOrder
    /\ \A p \in Producers : PushingOf(p)
    /\ \A c \in Consumers : PoppingOf(c)
    /\ UnusedUntilSetUp

-----------------------------------------------------------------------------
(* The types.                                                                *)

LEMMA SlotFacts ==
    ASSUME NEW s \in Slots
    PROVE  /\ Following(s) = Wrapped(s + 1) /\ Following(s) \in Slots
           /\ s \in Nat /\ s < MaxLength /\ MaxLength \in Nat \ {0}
<1>1. s \in Nat /\ s < MaxLength /\ MaxLength \in Nat \ {0}
  BY WrapOnce DEF Slots
<1>2. s + 1 \in Nat /\ s + 1 < 2 * MaxLength
  BY <1>1
<1>3. Following(s) = Wrapped(s + 1)
  BY <1>2, WrapOnce DEF Following
<1> QED BY <1>1, <1>3 DEF Wrapped, Slots

\* A thread's record after one of its steps.
LEMMA ThreadMoves ==
    ASSUME thread \in [Threads -> ThreadType], NEW t \in Threads, NEW where \in Places,
           At(t, where)
    PROVE  /\ thread' \in [Threads -> ThreadType]
           /\ thread'[t].at = where /\ thread'[t].todo = thread[t].todo
           /\ thread'[t].data = thread[t].data
           /\ \A u \in Threads \ {t} : thread'[u] = thread[u]
<1>1. thread[t] \in ThreadType
  OBVIOUS
<1>2. /\ [thread[t] EXCEPT !.at = where] \in ThreadType
      /\ [thread[t] EXCEPT !.at = where].at = where
      /\ [thread[t] EXCEPT !.at = where].todo = thread[t].todo
      /\ [thread[t] EXCEPT !.at = where].data = thread[t].data
  BY <1>1 DEF ThreadType
<1>3. thread' = [thread EXCEPT ![t] = [thread[t] EXCEPT !.at = where]]
  BY DEF At
<1> QED BY <1>2, <1>3

LEMMA ThreadReturns ==
    ASSUME thread \in [Threads -> ThreadType], NEW t \in Threads, NEW unlocked,
           Return(t, unlocked)
    PROVE  /\ thread' \in [Threads -> ThreadType]
           /\ thread'[t].at = "idle" /\ owner' = unlocked
           /\ \A u \in Threads \ {t} : thread'[u] = thread[u]
<1>1. AtRest \in ThreadType /\ AtRest.at = "idle"
  BY PQueueAssumption DEF AtRest, ThreadType, Places
<1> QED BY <1>1 DEF Return

\* The mutexes after one of them was locked or unlocked.
LEMMA OwnerChanges ==
    ASSUME owner \in OwnerType
    PROVE  /\ \A p \in Producers \cup {Null} :
                  /\ [owner EXCEPT !.push = p] \in OwnerType
                  /\ [owner EXCEPT !.push = p].push = p
                  /\ [owner EXCEPT !.push = p].pop = owner.pop
           /\ \A c \in Consumers \cup {Null} :
                  /\ [owner EXCEPT !.pop = c] \in OwnerType
                  /\ [owner EXCEPT !.pop = c].pop = c
                  /\ [owner EXCEPT !.pop = c].push = owner.push
           /\ \A s \in Slots, t \in Threads \cup {Null} :
                  /\ [owner EXCEPT !.slot[s] = t] \in OwnerType
                  /\ [owner EXCEPT !.slot[s] = t].pop = owner.pop
                  /\ [owner EXCEPT !.slot[s] = t].push = owner.push
BY DEF OwnerType

LEMMA OwnerFailures ==
    ASSUME owner \in OwnerType, NEW s \in Slots
    PROVE  /\ [owner EXCEPT !.slot[s] = Null, !.push = Null] \in OwnerType
           /\ [owner EXCEPT !.slot[s] = Null, !.push = Null].push = Null
           /\ [owner EXCEPT !.slot[s] = Null, !.push = Null].pop = owner.pop
           /\ [owner EXCEPT !.slot[s] = Null, !.pop = Null] \in OwnerType
           /\ [owner EXCEPT !.slot[s] = Null, !.pop = Null].pop = Null
           /\ [owner EXCEPT !.slot[s] = Null, !.pop = Null].push = owner.push
BY DEF OwnerType

-----------------------------------------------------------------------------
(* One thread at a time on each side.                                        *)

LEMMA ProducerAlone ==
    ASSUME RingInv, NEW p \in Producers, ~IsIdle(p)
    PROVE  /\ owner.push = p /\ life.valid = "valid"
           /\ \A q \in Producers \ {p} : thread[q].at = "idle"
           /\ Moving(Producers) <=> thread[p].at = "move"
<1>1. \A q \in Producers \ {p} : thread[q].at = "idle"
  BY DEF RingInv, OnePerSide, IsIdle
<1> QED BY <1>1 DEF RingInv, OnePerSide, IsIdle, Moving, UnusedUntilSetUp, Quiet, Threads

LEMMA ConsumerAlone ==
    ASSUME RingInv, NEW c \in Consumers, ~IsIdle(c)
    PROVE  /\ owner.pop = c /\ life.valid = "valid"
           /\ \A d \in Consumers \ {c} : thread[d].at = "idle"
           /\ Moving(Consumers) <=> thread[c].at = "move"
<1>1. \A d \in Consumers \ {c} : thread[d].at = "idle"
  BY DEF RingInv, OnePerSide, IsIdle
<1> QED BY <1>1 DEF RingInv, OnePerSide, IsIdle, Moving, UnusedUntilSetUp, Quiet, Threads

LEMMA SideFree ==
    ASSUME RingInv
    PROVE  /\ owner.push = Null => ~Moving(Producers) /\ \A p \in Producers : IsIdle(p)
           /\ owner.pop = Null => ~Moving(Consumers) /\ \A c \in Consumers : IsIdle(c)
BY PQueueAssumption DEF RingInv, OnePerSide, IsIdle, Moving

\* The places the ring is made of.
LEMMA RingPlaces ==
    ASSUME RingTypeOK
    PROVE  /\ Oldest = IF Moving(Consumers) THEN Wrapped(head + 1) ELSE head
           /\ NextFree = IF Moving(Producers) THEN Wrapped(tail + 1) ELSE tail
           /\ Oldest \in Slots /\ NextFree \in Slots
           /\ head \in Slots /\ tail \in Slots /\ Slots = 0..MaxLength - 1
           /\ numElements \in 0..MaxLength /\ MaxLength \in Nat \ {0}
BY SlotFacts, WrapOnce DEF RingTypeOK, Oldest, NextFree, Moving, Slots

\* What a step of one thread leaves as it was.
LEMMA OneProducerSteps ==
    ASSUME NEW p \in Producers, \A u \in Threads \ {p} : thread'[u] = thread[u]
    PROVE  /\ Moving(Consumers)' <=> Moving(Consumers)
           /\ \A c \in Consumers : thread'[c] = thread[c]
           /\ \A q \in Producers \ {p} : thread'[q] = thread[q]
           /\ (\A q \in Producers \ {p} : thread[q].at = "idle")
                 => (Moving(Producers)' <=> thread'[p].at = "move")
<1>1. \A c \in Consumers : thread'[c] = thread[c]
  BY PQueueAssumption DEF Threads
<1>2. \A q \in Producers \ {p} : thread'[q] = thread[q]
  BY DEF Threads
<1> QED BY <1>1, <1>2 DEF Moving

LEMMA OneConsumerSteps ==
    ASSUME NEW c \in Consumers, \A u \in Threads \ {c} : thread'[u] = thread[u]
    PROVE  /\ Moving(Producers)' <=> Moving(Producers)
           /\ \A p \in Producers : thread'[p] = thread[p]
           /\ \A d \in Consumers \ {c} : thread'[d] = thread[d]
           /\ (\A d \in Consumers \ {c} : thread[d].at = "idle")
                 => (Moving(Consumers)' <=> thread'[c].at = "move")
<1>1. \A p \in Producers : thread'[p] = thread[p]
  BY PQueueAssumption DEF Threads
<1>2. \A d \in Consumers \ {c} : thread'[d] = thread[d]
  BY DEF Threads
<1> QED BY <1>1, <1>2 DEF Moving

\* A step that changes neither the ring nor which threads are moving.
LEMMA RingStays ==
    ASSUME RingInv, UNCHANGED ringVars,
           Moving(Producers)' <=> Moving(Producers), Moving(Consumers)' <=> Moving(Consumers)
    PROVE  RingOrder'
BY DEF RingInv, RingOrder, NextFree, Oldest, Moving, ringVars

-----------------------------------------------------------------------------
(* The steps of PQueue_push.                                                 *)

\* What each of them must show, when only the thread p moves.
LEMMA ProducerKeeps ==
    ASSUME RingInv, NEW p \in Producers, RingTypeOK',
           \A q \in Producers \ {p} : thread[q].at = "idle",
           \A u \in Threads \ {p} : thread'[u] = thread[u],
           owner'.pop = owner.pop, owner'.push = (IF IsIdle(p)' THEN Null ELSE p),
           life.valid = "valid", life' = life,
           RingOrder', PushingOf(p)',
           \A c \in Consumers : PoppingOf(c)'
    PROVE  RingInv'
<1>1. OnePerSide'
  BY PQueueAssumption, OneProducerSteps DEF RingInv, OnePerSide, IsIdle
<1>2. \A q \in Producers : PushingOf(q)'
  <2> SUFFICES ASSUME NEW q \in Producers \ {p} PROVE PushingOf(q)'
    OBVIOUS
  <2>1. thread'[q].at = "idle"
    BY OneProducerSteps
  <2> QED BY <2>1 DEF PushingOf
<1>3. UnusedUntilSetUp'
  BY DEF UnusedUntilSetUp
<1> QED BY <1>1, <1>2, <1>3 DEF RingInv

LEMMA PushLockStep ==
    ASSUME RingInv, NEW p \in Producers, PushLock(p)
    PROVE  RingInv'
<1>1. p \in Threads /\ "check" \in Places /\ RingTypeOK
  BY DEF Threads, Places, RingInv
<1>2. /\ thread' \in [Threads -> ThreadType] /\ thread'[p].at = "check"
      /\ \A u \in Threads \ {p} : thread'[u] = thread[u]
  BY <1>1, ThreadMoves DEF PushLock, RingTypeOK
<1>3. ~Moving(Producers) /\ \A q \in Producers : thread[q].at = "idle"
  BY SideFree DEF PushLock, IsIdle
<1>4. owner' \in OwnerType /\ owner'.push = p /\ owner'.pop = owner.pop
  BY <1>1, OwnerChanges DEF PushLock, RingTypeOK
<1>5. RingTypeOK'
  BY <1>1, <1>2, <1>4 DEF PushLock, RingTypeOK, ringVars
<1>6. RingOrder'
  BY <1>2, <1>3, OneProducerSteps, RingStays DEF PushLock
<1>7. PushingOf(p)'
  BY <1>2 DEF PushLock, PushingOf
<1>8. \A c \in Consumers : PoppingOf(c)'
  BY <1>2, OneProducerSteps DEF PushLock, PoppingOf, RingInv, ringVars
<1> QED
  BY <1>2, <1>3, <1>4, <1>5, <1>6, <1>7, <1>8, ProducerKeeps
  DEF PushLock, MayBeUsed, IsIdle

\* A step that leaves everything but the mutexes and the thread's place alone.
LEMMA PushCheckStep ==
    ASSUME RingInv, NEW p \in Producers, PushCheck(p)
    PROVE  RingInv'
<1>1. /\ p \in Threads /\ "slot" \in Places /\ RingTypeOK
      /\ thread \in [Threads -> ThreadType] /\ owner \in OwnerType /\ ~IsIdle(p)
  BY DEF Threads, Places, RingInv, RingTypeOK, PushCheck, IsIdle
<1>2. /\ owner.push = p /\ life.valid = "valid"
      /\ \A q \in Producers \ {p} : thread[q].at = "idle"
      /\ ~Moving(Producers) /\ PushingOf(p)
  BY <1>1, ProducerAlone DEF PushCheck, RingInv
<1>3. /\ thread' \in [Threads -> ThreadType]
      /\ \A u \in Threads \ {p} : thread'[u] = thread[u]
      /\ thread'[p].at = IF HasRoom THEN "slot" ELSE "idle"
      /\ owner' \in OwnerType /\ owner'.pop = owner.pop
      /\ owner'.push = IF HasRoom THEN p ELSE Null
  <2>1. CASE HasRoom
    BY <1>1, <1>2, <2>1, ThreadMoves DEF PushCheck
  <2>2. CASE ~HasRoom
    <3>1. Return(p, PushUnlocked)
      BY <2>2 DEF PushCheck
    <3>2. /\ thread' \in [Threads -> ThreadType] /\ thread'[p].at = "idle"
          /\ \A u \in Threads \ {p} : thread'[u] = thread[u]
          /\ owner' = PushUnlocked
      BY <1>1, <3>1, ThreadReturns
    <3>3. /\ PushUnlocked \in OwnerType /\ PushUnlocked.push = Null
          /\ PushUnlocked.pop = owner.pop
      BY <1>1, OwnerChanges DEF PushUnlocked
    <3> QED BY <2>2, <3>2, <3>3
  <2> QED BY <2>1, <2>2
<1>4. UNCHANGED <<life, ringVars, pushes, popped>>
  BY DEF PushCheck
<1>5. RingTypeOK'
  BY <1>1, <1>3, <1>4 DEF RingTypeOK, ringVars
<1>6. RingOrder'
  BY <1>2, <1>3, <1>4, OneProducerSteps, RingStays
<1>7. PushingOf(p)'
  BY <1>2, <1>3, <1>4 DEF PushCheck, PushingOf, HasRoom, ringVars
<1>8. \A c \in Consumers : PoppingOf(c)'
  BY <1>3, <1>4, OneProducerSteps DEF PoppingOf, RingInv, ringVars
<1> QED
  BY <1>2, <1>3, <1>4, <1>5, <1>6, <1>7, <1>8, ProducerKeeps DEF IsIdle

LEMMA PushLockSlotStep ==
    ASSUME RingInv, NEW p \in Producers, LockSlot(p, tail)
    PROVE  RingInv'
<1>1. /\ p \in Threads /\ "copy" \in Places /\ RingTypeOK /\ tail \in Slots
      /\ thread \in [Threads -> ThreadType] /\ owner \in OwnerType /\ ~IsIdle(p)
  BY DEF Threads, Places, RingInv, RingTypeOK, LockSlot, IsIdle
<1>2. /\ owner.push = p /\ life.valid = "valid"
      /\ \A q \in Producers \ {p} : thread[q].at = "idle"
      /\ ~Moving(Producers) /\ PushingOf(p)
  BY <1>1, ProducerAlone DEF LockSlot, RingInv
<1>3. /\ thread' \in [Threads -> ThreadType]
      /\ \A u \in Threads \ {p} : thread'[u] = thread[u]
      /\ thread'[p].at = "copy"
      /\ owner' \in OwnerType /\ owner'.pop = owner.pop /\ owner'.push = p
  BY <1>1, <1>2, ThreadMoves, OwnerChanges DEF LockSlot
<1>4. UNCHANGED <<life, ringVars, pushes, popped>>
  BY DEF LockSlot
<1>5. RingTypeOK'
  BY <1>1, <1>3, <1>4 DEF RingTypeOK, ringVars
<1>6. RingOrder'
  BY <1>2, <1>3, <1>4, OneProducerSteps, RingStays
<1>7. PushingOf(p)'
  BY <1>2, <1>3, <1>4 DEF LockSlot, PushingOf, ringVars
<1>8. \A c \in Consumers : PoppingOf(c)'
  BY <1>3, <1>4, OneProducerSteps DEF PoppingOf, RingInv, ringVars
<1> QED
  BY <1>2, <1>3, <1>4, <1>5, <1>6, <1>7, <1>8, ProducerKeeps DEF IsIdle

\* With room in the ring, the tail is none of the slots in use.
LEMMA TailIsFree ==
    ASSUME RingInv, ~Moving(Producers), numElements < MaxLength
    PROVE  /\ \A i \in 1..numElements : Wrapped(Oldest + i - 1) # tail
           /\ ~Moving(Consumers) /\ numElements > 0 => head # tail
<1>1. tail = Wrapped(Oldest + numElements)
  BY RingPlaces DEF RingInv, RingOrder
<1> QED BY <1>1, RingPlaces DEF RingInv, Wrapped

LEMMA StoreDataStep ==
    ASSUME RingInv, NEW p \in Producers, StoreData(p)
    PROVE  RingInv'
<1>1. /\ p \in Threads /\ "count" \in Places /\ RingTypeOK /\ tail \in Slots
      /\ thread \in [Threads -> ThreadType] /\ owner \in OwnerType /\ ~IsIdle(p)
      /\ memory \in [Slots -> Data \cup {Null}]
  BY DEF Threads, Places, RingInv, RingTypeOK, StoreData, IsIdle
<1>2. /\ owner.push = p /\ life.valid = "valid"
      /\ \A q \in Producers \ {p} : thread[q].at = "idle"
      /\ ~Moving(Producers) /\ PushingOf(p)
  BY <1>1, ProducerAlone DEF StoreData, RingInv
<1>3. /\ thread' \in [Threads -> ThreadType]
      /\ \A u \in Threads \ {p} : thread'[u] = thread[u]
      /\ thread'[p].at = "count"
      /\ owner' \in OwnerType /\ owner'.pop = owner.pop /\ owner'.push = p
  BY <1>1, <1>2, ThreadMoves, OwnerChanges DEF StoreData, UnlockSlot
<1>4. UNCHANGED <<life, numElements, head, tail, pushes, popped>>
  BY DEF StoreData
<1>5. /\ pushes < MaxPushes /\ numElements < MaxLength
      /\ pushes + 1 \in Data /\ memory' \in [Slots -> Data \cup {Null}]
      /\ memory'[tail] = pushes + 1
      /\ \A s \in Slots : s # tail => memory'[s] = memory[s]
  <2>1. pushes < MaxPushes /\ numElements < MaxLength /\ pushes \in Nat
    BY <1>1, <1>2 DEF StoreData, PushingOf, RingTypeOK
  <2>2. pushes + 1 \in Data
    BY <2>1, PQueueAssumption DEF Data
  <2> QED BY <1>1, <2>1, <2>2 DEF StoreData
<1>6. RingTypeOK'
  BY <1>1, <1>3, <1>4, <1>5 DEF RingTypeOK
<1>7. RingOrder'
  <2>1. /\ Moving(Producers)' <=> Moving(Producers)
        /\ Moving(Consumers)' <=> Moving(Consumers)
    BY <1>2, <1>3, OneProducerSteps
  <2>2. Oldest' = Oldest /\ NextFree' = NextFree
    BY <1>4, <2>1 DEF Oldest, NextFree, Moving
  <2>3. ASSUME NEW i \in 1..numElements
        PROVE  memory'[Wrapped(Oldest + i - 1)] \in Data
    <3>1. Wrapped(Oldest + i - 1) # tail
      BY <1>2, <1>5, TailIsFree
    <3>2. Wrapped(Oldest + i - 1) \in Slots
      BY <1>1, RingPlaces, SMTT(30) DEF Wrapped
    <3> QED BY <1>5, <3>1, <3>2 DEF RingInv, RingOrder
  <2> QED BY <1>4, <2>2, <2>3 DEF RingInv, RingOrder, Wrapped
<1>8. PushingOf(p)'
  BY <1>3, <1>4, <1>5 DEF PushingOf
<1>9. ASSUME NEW c \in Consumers PROVE PoppingOf(c)'
  <2>1. thread'[c] = thread[c] /\ PoppingOf(c)
    BY <1>3, OneProducerSteps DEF RingInv
  <2>2. CASE thread[c].at = "count"
    <3>1. ~Moving(Consumers) /\ numElements > 0
      BY <2>1, <2>2, <1>1, ConsumerAlone DEF IsIdle, PoppingOf, RingTypeOK
    <3>2. head # tail
      BY <1>2, <1>5, <3>1, TailIsFree
    <3> QED BY <1>1, <1>4, <1>5, <2>1, <3>2 DEF PoppingOf, RingTypeOK
  <2> QED BY <1>4, <2>1, <2>2 DEF PoppingOf
<1> QED
  BY <1>2, <1>3, <1>4, <1>6, <1>7, <1>8, <1>9, ProducerKeeps DEF IsIdle

LEMMA StoreDataFailsStep ==
    ASSUME RingInv, NEW p \in Producers, StoreDataFails(p)
    PROVE  RingInv'
<1>1. /\ p \in Threads /\ RingTypeOK /\ tail \in Slots
      /\ thread \in [Threads -> ThreadType] /\ owner \in OwnerType /\ ~IsIdle(p)
  BY DEF Threads, RingInv, RingTypeOK, StoreDataFails, IsIdle
<1>2. /\ owner.push = p /\ life.valid = "valid"
      /\ \A q \in Producers \ {p} : thread[q].at = "idle"
      /\ ~Moving(Producers)
  BY <1>1, ProducerAlone DEF StoreDataFails
<1>3. /\ thread' \in [Threads -> ThreadType]
      /\ \A u \in Threads \ {p} : thread'[u] = thread[u]
      /\ thread'[p].at = "idle"
      /\ owner' \in OwnerType /\ owner'.pop = owner.pop /\ owner'.push = Null
  BY <1>1, ThreadReturns, OwnerFailures DEF StoreDataFails, Return
<1>4. UNCHANGED <<life, ringVars, pushes, popped>>
  BY DEF StoreDataFails
<1>5. RingTypeOK'
  BY <1>1, <1>3, <1>4 DEF RingTypeOK, ringVars
<1>6. RingOrder'
  BY <1>2, <1>3, <1>4, OneProducerSteps, RingStays
<1>7. PushingOf(p)'
  BY <1>3 DEF PushingOf
<1>8. \A c \in Consumers : PoppingOf(c)'
  BY <1>3, <1>4, OneProducerSteps DEF PoppingOf, RingInv, ringVars
<1> QED
  BY <1>2, <1>3, <1>4, <1>5, <1>6, <1>7, <1>8, ProducerKeeps DEF IsIdle

LEMMA CountPushStep ==
    ASSUME RingInv, NEW p \in Producers, CountPush(p)
    PROVE  RingInv'
<1>1. /\ p \in Threads /\ "move" \in Places /\ RingTypeOK /\ tail \in Slots
      /\ thread \in [Threads -> ThreadType] /\ ~IsIdle(p)
  BY DEF Threads, Places, RingInv, RingTypeOK, CountPush, IsIdle
<1>2. /\ owner.push = p /\ life.valid = "valid"
      /\ \A q \in Producers \ {p} : thread[q].at = "idle"
      /\ ~Moving(Producers) /\ PushingOf(p)
  BY <1>1, ProducerAlone DEF CountPush, RingInv
<1>3. /\ thread' \in [Threads -> ThreadType]
      /\ \A u \in Threads \ {p} : thread'[u] = thread[u]
      /\ thread'[p].at = "move" /\ owner' = owner
  BY <1>1, ThreadMoves DEF CountPush
<1>4. /\ UNCHANGED <<life, head, tail, memory, popped>>
      /\ numElements' = numElements + 1 /\ pushes' = pushes + 1
      /\ pushes \in Nat /\ pushes < MaxPushes /\ numElements < MaxLength
      /\ memory[tail] = pushes + 1 /\ MaxPushes \in Nat
      /\ numElements \in Nat /\ MaxLength \in Nat
  BY <1>1, <1>2, PQueueAssumption DEF CountPush, PushingOf, RingTypeOK
<1>5. RingTypeOK'
  <2>1. pushes' \in 0..MaxPushes /\ numElements' \in 0..MaxLength
    BY <1>4
  <2> QED BY <1>1, <1>3, <1>4, <2>1 DEF RingTypeOK
<1>6. RingOrder'
  <2>1. Moving(Producers)' /\ (Moving(Consumers)' <=> Moving(Consumers))
    BY <1>2, <1>3, OneProducerSteps
  <2>2. Oldest' = Oldest
    BY <1>4, <2>1 DEF Oldest, Moving
  <2>3. NextFree' = Wrapped(tail + 1) /\ NextFree = tail
    BY <1>1, <1>2, <1>4, <2>1, SlotFacts DEF NextFree
  <2>4. NextFree = Wrapped(Oldest + numElements)
    BY DEF RingInv, RingOrder
  <2>5. NextFree' = Wrapped(Oldest + numElements + 1)
    BY <1>1, <1>4, <2>3, <2>4, RingPlaces DEF Wrapped
  <2>6. ASSUME NEW i \in 1..numElements + 1
        PROVE  memory[Wrapped(Oldest + i - 1)] \in Data
    <3>1. CASE i \in 1..numElements
      BY <3>1 DEF RingInv, RingOrder
    <3>2. CASE i = numElements + 1
      <4>1. Wrapped(Oldest + i - 1) = tail
        BY <1>1, <1>4, <2>3, <2>4, <3>2, RingPlaces
      <4>2. pushes + 1 \in Data
        BY <1>4 DEF Data
      <4> QED BY <1>4, <4>1, <4>2
    <3> QED BY <1>4, <3>1, <3>2
  <2>7. Oldest + (numElements + 1) = Oldest + numElements + 1
    BY <1>1, <1>4, RingPlaces
  <2> QED BY <1>4, <2>2, <2>5, <2>6, <2>7 DEF RingOrder, Wrapped
<1>7. PushingOf(p)'
  BY <1>3 DEF PushingOf
<1>8. ASSUME NEW c \in Consumers PROVE PoppingOf(c)'
  BY <1>3, <1>4, OneProducerSteps DEF PoppingOf, RingInv
<1> QED
  BY <1>2, <1>3, <1>4, <1>5, <1>6, <1>7, <1>8, ProducerKeeps DEF IsIdle

LEMMA MoveTailStep ==
    ASSUME RingInv, NEW p \in Producers, MoveTail(p)
    PROVE  RingInv'
<1>1. /\ p \in Threads /\ RingTypeOK /\ tail \in Slots /\ owner \in OwnerType
      /\ thread \in [Threads -> ThreadType] /\ ~IsIdle(p)
  BY DEF Threads, RingInv, RingTypeOK, MoveTail, IsIdle
<1>2. /\ owner.push = p /\ life.valid = "valid"
      /\ \A q \in Producers \ {p} : thread[q].at = "idle"
      /\ Moving(Producers)
  BY <1>1, ProducerAlone DEF MoveTail
<1>3. /\ thread' \in [Threads -> ThreadType]
      /\ \A u \in Threads \ {p} : thread'[u] = thread[u]
      /\ thread'[p].at = "idle" /\ owner' = PushUnlocked
  BY <1>1, ThreadReturns DEF MoveTail
<1>4. owner' \in OwnerType /\ owner'.pop = owner.pop /\ owner'.push = Null
  BY <1>1, <1>3, OwnerChanges DEF PushUnlocked
<1>5. /\ UNCHANGED <<life, numElements, head, memory, pushes, popped>>
      /\ tail' = Following(tail) /\ tail' \in Slots
  BY <1>1, SlotFacts DEF MoveTail, Following
<1>6. RingTypeOK'
  BY <1>1, <1>3, <1>4, <1>5 DEF RingTypeOK
<1>7. RingOrder'
  <2>1. ~Moving(Producers)' /\ (Moving(Consumers)' <=> Moving(Consumers))
    BY <1>2, <1>3, OneProducerSteps
  <2>2. Oldest' = Oldest /\ NextFree' = NextFree
    BY <1>2, <1>5, <2>1 DEF Oldest, NextFree, Moving
  <2> QED BY <1>5, <2>2 DEF RingInv, RingOrder, Wrapped
<1>8. PushingOf(p)'
  BY <1>3 DEF PushingOf
<1>9. \A c \in Consumers : PoppingOf(c)'
  BY <1>3, <1>5, OneProducerSteps DEF PoppingOf, RingInv
<1> QED
  BY <1>2, <1>3, <1>4, <1>5, <1>6, <1>7, <1>8, <1>9, ProducerKeeps DEF IsIdle

LEMMA ProducerSteps ==
    ASSUME RingInv, NEW p \in Producers, PushLock(p) \/ Producer(p)
    PROVE  RingInv'
BY PushLockStep, PushCheckStep, PushLockSlotStep, StoreDataStep, StoreDataFailsStep,
   CountPushStep, MoveTailStep DEF Producer

-----------------------------------------------------------------------------
(* The steps of PQueue_pop and its relatives.                                *)

LEMMA ConsumerKeeps ==
    ASSUME RingInv, NEW c \in Consumers, RingTypeOK',
           \A d \in Consumers \ {c} : thread[d].at = "idle",
           \A u \in Threads \ {c} : thread'[u] = thread[u],
           owner'.push = owner.push, owner'.pop = (IF IsIdle(c)' THEN Null ELSE c),
           life.valid = "valid", life' = life,
           RingOrder', PoppingOf(c)',
           \A p \in Producers : PushingOf(p)'
    PROVE  RingInv'
<1>1. OnePerSide'
  BY PQueueAssumption, OneConsumerSteps DEF RingInv, OnePerSide, IsIdle
<1>2. \A d \in Consumers : PoppingOf(d)'
  <2> SUFFICES ASSUME NEW d \in Consumers \ {c} PROVE PoppingOf(d)'
    OBVIOUS
  <2>1. thread'[d].at = "idle"
    BY OneConsumerSteps
  <2> QED BY <2>1 DEF PoppingOf
<1>3. UnusedUntilSetUp'
  BY DEF UnusedUntilSetUp
<1> QED BY <1>1, <1>2, <1>3 DEF RingInv

LEMMA PopLockStep ==
    ASSUME RingInv, NEW c \in Consumers, PopLock(c)
    PROVE  RingInv' /\ ~Moving(Consumers)'
<1>1. c \in Threads /\ RingTypeOK /\ thread \in [Threads -> ThreadType]
  BY DEF Threads, RingInv, RingTypeOK
<1>2. PICK wait \in Microsecs \cup {Null} :
          thread' = [thread EXCEPT ![c].at = IF wait = Null THEN "check" ELSE "wait",
                                   ![c].wait = wait]
  BY DEF PopLock
<1>3. /\ thread' \in [Threads -> ThreadType] /\ thread'[c].at \in {"check", "wait"}
      /\ \A u \in Threads \ {c} : thread'[u] = thread[u]
  <2> DEFINE r == [[thread[c] EXCEPT !.at = IF wait = Null THEN "check" ELSE "wait"]
                                     EXCEPT !.wait = wait]
  <2>1. thread[c] \in ThreadType
    BY <1>1
  <2>2. r \in ThreadType /\ r.at \in {"check", "wait"}
    BY <2>1 DEF ThreadType, Places
  <2>3. thread' = [thread EXCEPT ![c] = r]
    BY <1>1, <1>2, <2>1
  <2> HIDE DEF r
  <2> QED BY <1>1, <2>2, <2>3
<1>4. ~Moving(Consumers) /\ \A d \in Consumers : thread[d].at = "idle"
  BY SideFree DEF PopLock, IsIdle
<1>5. owner' \in OwnerType /\ owner'.pop = c /\ owner'.push = owner.push
  BY <1>1, OwnerChanges DEF PopLock, RingTypeOK
<1>6. UNCHANGED <<life, ringVars, pushes, popped>> /\ life.valid = "valid"
  BY DEF PopLock, MayBeUsed
<1>7. RingTypeOK'
  BY <1>1, <1>3, <1>5, <1>6 DEF RingTypeOK, ringVars
<1>8. RingOrder'
  BY <1>3, <1>4, <1>6, OneConsumerSteps, RingStays
<1>9. PoppingOf(c)'
  BY <1>3 DEF PoppingOf
<1>10. \A p \in Producers : PushingOf(p)'
  BY <1>3, <1>6, OneConsumerSteps DEF PushingOf, RingInv, ringVars
<1>11. ~Moving(Consumers)'
  BY <1>2, <1>3, <1>4, OneConsumerSteps
<1> QED
  BY <1>11, <1>3, <1>4, <1>5, <1>6, <1>7, <1>8, <1>9, <1>10, ConsumerKeeps DEF IsIdle

LEMMA WakesUpStep ==
    ASSUME RingInv, NEW c \in Consumers, WakesUp(c)
    PROVE  RingInv' /\ ~Moving(Consumers)'
<1>1. /\ c \in Threads /\ "check" \in Places /\ RingTypeOK
      /\ thread \in [Threads -> ThreadType] /\ ~IsIdle(c)
  BY DEF Threads, Places, RingInv, RingTypeOK, WakesUp, IsIdle
<1>2. /\ owner.pop = c /\ life.valid = "valid"
      /\ \A d \in Consumers \ {c} : thread[d].at = "idle"
      /\ ~Moving(Consumers)
  BY <1>1, ConsumerAlone DEF WakesUp
<1>3. /\ thread' \in [Threads -> ThreadType] /\ thread'[c].at = "check"
      /\ \A u \in Threads \ {c} : thread'[u] = thread[u]
  BY <1>1, ThreadMoves DEF WakesUp
<1>4. UNCHANGED <<life, ringVars, owner, pushes, popped>>
  BY DEF WakesUp
<1>5. RingTypeOK'
  BY <1>1, <1>3, <1>4 DEF RingTypeOK, ringVars
<1>6. RingOrder'
  BY <1>2, <1>3, <1>4, OneConsumerSteps, RingStays
<1>7. PoppingOf(c)'
  BY <1>3 DEF PoppingOf
<1>8. \A p \in Producers : PushingOf(p)'
  BY <1>3, <1>4, OneConsumerSteps DEF PushingOf, RingInv, ringVars
<1>11. ~Moving(Consumers)'
  BY <1>2, <1>3, <1>4, OneConsumerSteps
<1> QED
  BY <1>11, <1>2, <1>3, <1>4, <1>5, <1>6, <1>7, <1>8, ConsumerKeeps DEF IsIdle

LEMMA PopCheckStep ==
    ASSUME RingInv, NEW c \in Consumers, PopCheck(c)
    PROVE  RingInv' /\ ~Moving(Consumers)'
<1>1. /\ c \in Threads /\ RingTypeOK /\ owner \in OwnerType
      /\ thread \in [Threads -> ThreadType] /\ ~IsIdle(c)
      /\ numElements \in 0..MaxLength /\ MaxLength \in Nat \ {0}
  BY PQueueAssumption DEF Threads, RingInv, RingTypeOK, PopCheck, IsIdle
<1>2. /\ owner.pop = c /\ life.valid = "valid"
      /\ \A d \in Consumers \ {c} : thread[d].at = "idle"
      /\ ~Moving(Consumers)
  BY <1>1, ConsumerAlone DEF PopCheck
<1>3. /\ thread' \in [Threads -> ThreadType]
      /\ \A u \in Threads \ {c} : thread'[u] = thread[u]
      /\ thread'[c].at \in {"slot", "idle"}
      /\ thread'[c].at = "slot" => thread'[c].todo \in 1..numElements
      /\ owner' \in OwnerType /\ owner'.push = owner.push
      /\ owner'.pop = IF thread'[c].at = "idle" THEN Null ELSE c
  <2>1. CASE numElements = 0
    <3>1. Return(c, PopUnlocked)
      BY <2>1 DEF PopCheck
    <3>2. /\ thread' \in [Threads -> ThreadType] /\ thread'[c].at = "idle"
          /\ \A u \in Threads \ {c} : thread'[u] = thread[u]
          /\ owner' = PopUnlocked
      BY <1>1, <3>1, ThreadReturns
    <3>3. /\ PopUnlocked \in OwnerType /\ PopUnlocked.pop = Null
          /\ PopUnlocked.push = owner.push
      BY <1>1, OwnerChanges DEF PopUnlocked
    <3> QED BY <3>2, <3>3
  <2>2. CASE numElements # 0
    <3>1. PICK n \in {1, numElements} :
              thread' = [thread EXCEPT ![c].at = "slot", ![c].todo = n]
      BY <2>2 DEF PopCheck
    <3> DEFINE r == [[thread[c] EXCEPT !.at = "slot"] EXCEPT !.todo = n]
    <3>2. thread[c] \in ThreadType /\ n \in 1..numElements /\ n \in 0..MaxLength
      BY <1>1, <2>2
    <3>3. r \in ThreadType /\ r.at = "slot" /\ r.todo = n
      BY <3>2 DEF ThreadType, Places
    <3>4. thread' = [thread EXCEPT ![c] = r]
      BY <1>1, <3>1, <3>2
    <3>5. owner' = owner
      BY <2>2 DEF PopCheck
    <3> HIDE DEF r
    <3> QED BY <1>1, <1>2, <3>2, <3>3, <3>4, <3>5
  <2> QED BY <2>1, <2>2
<1>4. UNCHANGED <<life, ringVars, pushes, popped>>
  BY DEF PopCheck
<1>5. RingTypeOK'
  BY <1>1, <1>3, <1>4 DEF RingTypeOK, ringVars
<1>6. RingOrder'
  BY <1>2, <1>3, <1>4, OneConsumerSteps, RingStays
<1>7. PoppingOf(c)'
  BY <1>3, <1>4 DEF PoppingOf, ringVars
<1>8. \A p \in Producers : PushingOf(p)'
  BY <1>3, <1>4, OneConsumerSteps DEF PushingOf, RingInv, ringVars
<1>11. ~Moving(Consumers)'
  BY <1>2, <1>3, <1>4, OneConsumerSteps
<1> QED
  BY <1>11, <1>2, <1>3, <1>4, <1>5, <1>6, <1>7, <1>8, ConsumerKeeps DEF IsIdle

LEMMA PopLockSlotStep ==
    ASSUME RingInv, NEW c \in Consumers, LockSlot(c, head)
    PROVE  RingInv' /\ ~Moving(Consumers)'
<1>1. /\ c \in Threads /\ "copy" \in Places /\ RingTypeOK /\ head \in Slots
      /\ thread \in [Threads -> ThreadType] /\ owner \in OwnerType /\ ~IsIdle(c)
  BY DEF Threads, Places, RingInv, RingTypeOK, LockSlot, IsIdle
<1>2. /\ owner.pop = c /\ life.valid = "valid"
      /\ \A d \in Consumers \ {c} : thread[d].at = "idle"
      /\ ~Moving(Consumers) /\ PoppingOf(c)
  BY <1>1, ConsumerAlone DEF LockSlot, RingInv
<1>3. /\ thread' \in [Threads -> ThreadType]
      /\ \A u \in Threads \ {c} : thread'[u] = thread[u]
      /\ thread'[c].at = "copy" /\ thread'[c].todo = thread[c].todo
      /\ owner' \in OwnerType /\ owner'.push = owner.push /\ owner'.pop = c
  BY <1>1, <1>2, ThreadMoves, OwnerChanges DEF LockSlot
<1>4. UNCHANGED <<life, ringVars, pushes, popped>>
  BY DEF LockSlot
<1>5. RingTypeOK'
  BY <1>1, <1>3, <1>4 DEF RingTypeOK, ringVars
<1>6. RingOrder'
  BY <1>2, <1>3, <1>4, OneConsumerSteps, RingStays
<1>7. PoppingOf(c)'
  BY <1>2, <1>3, <1>4 DEF LockSlot, PoppingOf, ringVars
<1>8. \A p \in Producers : PushingOf(p)'
  BY <1>3, <1>4, OneConsumerSteps DEF PushingOf, RingInv, ringVars
<1>11. ~Moving(Consumers)'
  BY <1>2, <1>3, <1>4, OneConsumerSteps
<1> QED
  BY <1>11, <1>2, <1>3, <1>4, <1>5, <1>6, <1>7, <1>8, ConsumerKeeps DEF IsIdle

LEMMA RetrieveDataStep ==
    ASSUME RingInv, NEW c \in Consumers, RetrieveData(c)
    PROVE  RingInv' /\ ~Moving(Consumers)'
<1>1. /\ c \in Threads /\ RingTypeOK /\ head \in Slots
      /\ thread \in [Threads -> ThreadType] /\ owner \in OwnerType /\ ~IsIdle(c)
      /\ memory[head] \in Data \cup {Null}
  BY DEF Threads, RingInv, RingTypeOK, RetrieveData, IsIdle
<1>2. /\ owner.pop = c /\ life.valid = "valid"
      /\ \A d \in Consumers \ {c} : thread[d].at = "idle"
      /\ ~Moving(Consumers) /\ PoppingOf(c)
  BY <1>1, ConsumerAlone DEF RetrieveData, RingInv
<1>3. /\ thread' \in [Threads -> ThreadType]
      /\ \A u \in Threads \ {c} : thread'[u] = thread[u]
      /\ thread'[c].at = "count" /\ thread'[c].todo = thread[c].todo
      /\ thread'[c].data = memory[head]
  <2> DEFINE r == [[thread[c] EXCEPT !.at = "count"] EXCEPT !.data = memory[head]]
  <2>1. thread[c] \in ThreadType
    BY <1>1
  <2>2. /\ r \in ThreadType /\ r.at = "count"
        /\ r.data = memory[head] /\ r.todo = thread[c].todo
    BY <1>1, <2>1 DEF ThreadType, Places
  <2>3. thread' = [thread EXCEPT ![c] = r]
    BY <1>1, <2>1 DEF RetrieveData
  <2> HIDE DEF r
  <2> QED BY <1>1, <2>2, <2>3
<1>4. owner' \in OwnerType /\ owner'.push = owner.push /\ owner'.pop = c
  BY <1>1, <1>2, OwnerChanges DEF RetrieveData, UnlockSlot
<1>5. UNCHANGED <<life, ringVars, pushes, popped>>
  BY DEF RetrieveData
<1>6. RingTypeOK'
  BY <1>1, <1>3, <1>4, <1>5 DEF RingTypeOK, ringVars
<1>7. RingOrder'
  BY <1>2, <1>3, <1>5, OneConsumerSteps, RingStays
<1>8. PoppingOf(c)'
  BY <1>2, <1>3, <1>5 DEF RetrieveData, PoppingOf, ringVars
<1>9. \A p \in Producers : PushingOf(p)'
  BY <1>3, <1>5, OneConsumerSteps DEF PushingOf, RingInv, ringVars
<1>11. ~Moving(Consumers)'
  BY <1>2, <1>3, <1>4, OneConsumerSteps
<1> QED
  BY <1>11, <1>2, <1>3, <1>4, <1>5, <1>6, <1>7, <1>8, <1>9, ConsumerKeeps DEF IsIdle

LEMMA RetrieveDataFailsStep ==
    ASSUME RingInv, NEW c \in Consumers, RetrieveDataFails(c)
    PROVE  RingInv' /\ ~Moving(Consumers)'
<1>1. /\ c \in Threads /\ RingTypeOK /\ head \in Slots
      /\ thread \in [Threads -> ThreadType] /\ owner \in OwnerType /\ ~IsIdle(c)
  BY DEF Threads, RingInv, RingTypeOK, RetrieveDataFails, IsIdle
<1>2. /\ owner.pop = c /\ life.valid = "valid"
      /\ \A d \in Consumers \ {c} : thread[d].at = "idle"
      /\ ~Moving(Consumers)
  BY <1>1, ConsumerAlone DEF RetrieveDataFails
<1>3. /\ thread' \in [Threads -> ThreadType]
      /\ \A u \in Threads \ {c} : thread'[u] = thread[u]
      /\ thread'[c].at = "idle"
      /\ owner' \in OwnerType /\ owner'.push = owner.push /\ owner'.pop = Null
  BY <1>1, ThreadReturns, OwnerFailures DEF RetrieveDataFails, Return
<1>4. UNCHANGED <<life, ringVars, pushes, popped>>
  BY DEF RetrieveDataFails
<1>5. RingTypeOK'
  BY <1>1, <1>3, <1>4 DEF RingTypeOK, ringVars
<1>6. RingOrder'
  BY <1>2, <1>3, <1>4, OneConsumerSteps, RingStays
<1>7. PoppingOf(c)'
  BY <1>3 DEF PoppingOf
<1>8. \A p \in Producers : PushingOf(p)'
  BY <1>3, <1>4, OneConsumerSteps DEF PushingOf, RingInv, ringVars
<1>11. ~Moving(Consumers)'
  BY <1>2, <1>3, <1>4, OneConsumerSteps
<1> QED
  BY <1>11, <1>2, <1>3, <1>4, <1>5, <1>6, <1>7, <1>8, ConsumerKeeps DEF IsIdle

\* What is popped is the datum in the head's slot.
LEMMA CountPopFacts ==
    ASSUME RingInv, NEW c \in Consumers, CountPop(c)
    PROVE  /\ ~Moving(Consumers) /\ Oldest = head /\ numElements \in 1..MaxLength
           /\ thread[c].data = memory[head] /\ memory[head] \in Data
           /\ numElements' = numElements - 1 /\ popped' = Append(popped, memory[head])
           /\ Moving(Consumers)' /\ (Moving(Producers)' <=> Moving(Producers))
           /\ thread' \in [Threads -> ThreadType]
           /\ \A u \in Threads \ {c} : thread'[u] = thread[u]
           /\ thread'[c].at = "move" /\ thread'[c].todo = thread[c].todo
<1>1. /\ c \in Threads /\ "move" \in Places /\ RingTypeOK
      /\ thread \in [Threads -> ThreadType] /\ ~IsIdle(c)
  BY DEF Threads, Places, RingInv, RingTypeOK, CountPop, IsIdle
<1>2. /\ ~Moving(Consumers) /\ PoppingOf(c)
      /\ \A d \in Consumers \ {c} : thread[d].at = "idle"
  BY <1>1, ConsumerAlone DEF CountPop, RingInv
<1>3. numElements \in 1..MaxLength /\ thread[c].data = memory[head]
  BY <1>1, <1>2, RingPlaces DEF CountPop, PoppingOf
<1>4. Oldest = head /\ Wrapped(head + 1 - 1) = head
  BY <1>1, <1>2, RingPlaces DEF Wrapped
<1>5. memory[head] \in Data
  <2>1. 1 \in 1..numElements
    BY <1>3
  <2>2. memory[Wrapped(Oldest + 1 - 1)] \in Data
    BY <2>1 DEF RingInv, RingOrder
  <2> QED BY <1>4, <2>2
<1>6. /\ thread' \in [Threads -> ThreadType]
      /\ \A u \in Threads \ {c} : thread'[u] = thread[u]
      /\ thread'[c].at = "move" /\ thread'[c].todo = thread[c].todo
  BY <1>1, ThreadMoves DEF CountPop
<1> QED BY <1>2, <1>3, <1>4, <1>5, <1>6, OneConsumerSteps DEF CountPop

LEMMA CountPopStep ==
    ASSUME RingInv, NEW c \in Consumers, CountPop(c)
    PROVE  RingInv'
<1>1. /\ RingTypeOK /\ ~IsIdle(c) /\ c \in Threads /\ head \in Slots
      /\ MaxLength \in Nat \ {0}
  BY PQueueAssumption DEF RingInv, CountPop, IsIdle, Threads, RingTypeOK
<1>2. /\ owner.pop = c /\ life.valid = "valid"
      /\ \A d \in Consumers \ {c} : thread[d].at = "idle"
      /\ PoppingOf(c)
  BY <1>1, ConsumerAlone DEF RingInv
<1>3. UNCHANGED <<life, head, tail, memory, owner, pushes>>
  BY DEF CountPop
<1>4. /\ numElements \in 1..MaxLength /\ numElements' = numElements - 1
      /\ popped' \in Seq(Data)
  BY <1>1, CountPopFacts, SMTT(30) DEF RingTypeOK
<1>5. RingTypeOK'
  <2>1. numElements' \in 0..MaxLength
    BY <1>1, <1>4
  <2> QED BY <1>1, <1>3, <1>4, <2>1, CountPopFacts DEF RingTypeOK
<1>6. RingOrder'
  <2>1. Oldest' = Wrapped(head + 1) /\ NextFree' = NextFree /\ Oldest = head
    BY <1>1, <1>3, CountPopFacts, SlotFacts DEF Oldest, NextFree, Moving
  <2>2. NextFree' = Wrapped(Oldest' + numElements')
    <3>1. NextFree = Wrapped(head + numElements)
      BY <2>1 DEF RingInv, RingOrder
    <3>2. Wrapped(head + numElements) = Wrapped(Wrapped(head + 1) + (numElements - 1))
      BY <1>1, <1>4, RingPlaces DEF Wrapped
    <3> QED BY <1>4, <2>1, <3>1, <3>2
  <2>3. ASSUME NEW i \in 1..numElements'
        PROVE  memory[Wrapped(Wrapped(head + 1) + i - 1)] \in Data
    <3>1. i + 1 \in 1..numElements
      BY <1>4
    <3>2. memory[Wrapped(head + (i + 1) - 1)] \in Data
      BY <2>1, <3>1 DEF RingInv, RingOrder
    <3>3. Wrapped(head + (i + 1) - 1) = Wrapped(Wrapped(head + 1) + i - 1)
      BY <1>1, <1>4, <3>1, RingPlaces DEF Wrapped
    <3> QED BY <3>2, <3>3
  <2> QED BY <1>3, <2>1, <2>2, <2>3 DEF RingOrder, Wrapped
<1>7. PoppingOf(c)'
  BY <1>2, <1>4, CountPopFacts DEF CountPop, PoppingOf
<1>8. ASSUME NEW p \in Producers PROVE PushingOf(p)'
  <2>1. thread'[p] = thread[p] /\ PushingOf(p)
    BY CountPopFacts, OneConsumerSteps DEF RingInv
  <2>2. numElements' < MaxLength
    BY <1>1, <1>4
  <2> QED BY <1>3, <2>1, <2>2 DEF PushingOf
<1> QED
  BY <1>2, <1>3, <1>5, <1>6, <1>7, <1>8, CountPopFacts, ConsumerKeeps DEF IsIdle

LEMMA MoveHeadStep ==
    ASSUME RingInv, NEW c \in Consumers, MoveHead(c)
    PROVE  RingInv'
<1>1. /\ c \in Threads /\ RingTypeOK /\ head \in Slots /\ owner \in OwnerType
      /\ thread \in [Threads -> ThreadType] /\ ~IsIdle(c)
      /\ numElements \in 0..MaxLength /\ MaxLength \in Nat \ {0}
  BY PQueueAssumption DEF Threads, RingInv, RingTypeOK, MoveHead, IsIdle
<1>2. /\ owner.pop = c /\ life.valid = "valid"
      /\ \A d \in Consumers \ {c} : thread[d].at = "idle"
      /\ Moving(Consumers) /\ thread[c].todo \in 1..numElements + 1
  BY <1>1, ConsumerAlone DEF MoveHead, RingInv, PoppingOf
<1>3. /\ thread' \in [Threads -> ThreadType]
      /\ \A u \in Threads \ {c} : thread'[u] = thread[u]
      /\ thread'[c].at \in {"slot", "idle"}
      /\ thread'[c].at = "slot" => thread'[c].todo \in 1..numElements
      /\ owner' \in OwnerType /\ owner'.push = owner.push
      /\ owner'.pop = IF thread'[c].at = "idle" THEN Null ELSE c
  <2>1. CASE thread[c].todo = 1
    <3>1. Return(c, PopUnlocked)
      BY <2>1 DEF MoveHead
    <3>2. /\ thread' \in [Threads -> ThreadType] /\ thread'[c].at = "idle"
          /\ \A u \in Threads \ {c} : thread'[u] = thread[u]
          /\ owner' = PopUnlocked
      BY <1>1, <3>1, ThreadReturns
    <3>3. /\ PopUnlocked \in OwnerType /\ PopUnlocked.pop = Null
          /\ PopUnlocked.push = owner.push
      BY <1>1, OwnerChanges DEF PopUnlocked
    <3> QED BY <3>2, <3>3
  <2>2. CASE thread[c].todo # 1
    <3> DEFINE n == thread[c].todo - 1
               r == [[thread[c] EXCEPT !.at = "slot"] EXCEPT !.todo = n]
    <3>1. thread' = [thread EXCEPT ![c].at = "slot", ![c].todo = @ - 1] /\ owner' = owner
      BY <2>2 DEF MoveHead
    <3>2. thread[c] \in ThreadType /\ n \in 1..numElements /\ n \in 0..MaxLength
      BY <1>1, <1>2, <2>2
    <3>3. r \in ThreadType /\ r.at = "slot" /\ r.todo = n
      BY <3>2 DEF ThreadType, Places
    <3>4. thread' = [thread EXCEPT ![c] = r]
      BY <1>1, <3>1, <3>2
    <3> HIDE DEF r, n
    <3>5. thread'[c] = r /\ thread' \in [Threads -> ThreadType]
          /\ \A u \in Threads \ {c} : thread'[u] = thread[u]
      BY <1>1, <3>3, <3>4
    <3>6. thread'[c].at = "slot" /\ thread'[c].todo \in 1..numElements
      BY <3>2, <3>3, <3>5
    <3> QED BY <1>1, <1>2, <3>1, <3>5, <3>6
  <2> QED BY <2>1, <2>2
<1>4. /\ UNCHANGED <<life, numElements, tail, memory, pushes, popped>>
      /\ head' = Following(head) /\ head' \in Slots
  BY <1>1, SlotFacts DEF MoveHead
<1>5. RingTypeOK'
  BY <1>1, <1>3, <1>4 DEF RingTypeOK
<1>6. RingOrder'
  <2>1. ~Moving(Consumers)' /\ (Moving(Producers)' <=> Moving(Producers))
    BY <1>2, <1>3, OneConsumerSteps
  <2>2. Oldest' = Oldest /\ NextFree' = NextFree
    BY <1>2, <1>4, <2>1 DEF Oldest, NextFree, Moving
  <2> QED BY <1>4, <2>2 DEF RingInv, RingOrder, Wrapped
<1>7. PoppingOf(c)'
  BY <1>3, <1>4 DEF PoppingOf
<1>8. \A p \in Producers : PushingOf(p)'
  BY <1>3, <1>4, OneConsumerSteps DEF PushingOf, RingInv
<1> QED
  BY <1>2, <1>3, <1>4, <1>5, <1>6, <1>7, <1>8, ConsumerKeeps DEF IsIdle

LEMMA ConsumerSteps ==
    ASSUME RingInv, NEW c \in Consumers, PopLock(c) \/ Consumer(c) \/ WakesUp(c)
    PROVE  RingInv'
BY PopLockStep, WakesUpStep, PopCheckStep, PopLockSlotStep, RetrieveDataStep,
   RetrieveDataFailsStep, CountPopStep, MoveHeadStep DEF Consumer

-----------------------------------------------------------------------------
(* The life of the queue: it is initialised, set up and cleared while nobody *)
(* uses it.                                                                  *)

LEMMA LifeStep ==
    ASSUME RingInv,
           (\E fails \in {{}} \cup {{s} : s \in Fallible} :
                PQueue_init(fails) \/ PQueue_setupElement(fails)) \/ PQueue_clear
    PROVE  RingInv'
<1>1. Quiet /\ UNCHANGED <<owner, thread, pushes>>
  BY DEF PQueue_init, PQueue_setupElement, PQueue_clear
<1>2. OnePerSide' /\ Quiet'
  BY <1>1 DEF RingInv, OnePerSide, Quiet, IsIdle
<1>3. (\A p \in Producers : PushingOf(p)') /\ (\A c \in Consumers : PoppingOf(c)')
  BY <1>1 DEF Quiet, IsIdle, PushingOf, PoppingOf, Threads
<1>4. RingTypeOK /\ 0 \in Slots /\ 0 \in 0..MaxLength /\ MaxLength \in Nat \ {0}
  BY WrapOnce DEF RingInv, Slots
<1>5. ~Moving(Producers) /\ ~Moving(Consumers)
      /\ ~Moving(Producers)' /\ ~Moving(Consumers)'
  BY <1>1 DEF Quiet, IsIdle, Moving, Threads
<1>6. CASE \E fails \in {{}} \cup {{s} : s \in Fallible} : PQueue_init(fails)
  <2>1. /\ life.valid # "valid" /\ UNCHANGED <<memory, popped>>
        /\ numElements' = 0 /\ head' = 0 /\ tail' = 0
    BY <1>6 DEF PQueue_init, RingInv, UnusedUntilSetUp, ringVars
  <2>2. RingTypeOK'
    BY <1>1, <1>4, <2>1 DEF RingTypeOK
  <2>3. RingOrder'
    BY <1>4, <1>5, <2>1 DEF RingOrder, NextFree, Oldest, Moving, Wrapped
  <2> QED BY <1>2, <1>3, <2>1, <2>2, <2>3 DEF RingInv, UnusedUntilSetUp
<1>7. CASE \E fails \in {{}} \cup {{s} : s \in Fallible} : PQueue_setupElement(fails)
  <2>1. life.valid # "valid"
    BY <1>7 DEF PQueue_setupElement, Between, Stages, StageNumber
  <2>2. /\ UNCHANGED <<numElements, head, tail, popped>>
        /\ numElements = 0 /\ head = 0 /\ tail = 0
        /\ memory' = memory \/ memory' = [s \in Slots |-> Null]
    BY <1>7, <2>1 DEF PQueue_setupElement, RingInv, UnusedUntilSetUp
  <2>3. RingTypeOK'
    BY <1>1, <1>4, <2>2 DEF RingTypeOK
  <2>4. RingOrder'
    BY <1>4, <1>5, <2>2 DEF RingOrder, NextFree, Oldest, Moving, Wrapped
  <2> QED BY <1>2, <1>3, <2>2, <2>3, <2>4 DEF RingInv, UnusedUntilSetUp
<1>8. CASE PQueue_clear
  <2>1. /\ numElements' = 0 /\ head' = 0 /\ tail' = 0
        /\ popped' = <<>> /\ memory' = memory
    BY <1>8 DEF PQueue_clear
  <2>2. RingTypeOK'
    BY <1>1, <1>4, <2>1 DEF RingTypeOK
  <2>3. RingOrder'
    BY <1>4, <1>5, <2>1 DEF RingOrder, NextFree, Oldest, Moving, Wrapped
  <2> QED BY <1>2, <1>3, <2>1, <2>2, <2>3 DEF RingInv, UnusedUntilSetUp
<1> QED BY <1>6, <1>7, <1>8

LEMMA RingStart == Init => RingInv
<1> SUFFICES ASSUME Init PROVE RingInv
  OBVIOUS
<1>1. 0 \in Slots /\ MaxLength \in Nat \ {0} /\ MaxPushes \in Nat \ {0}
  BY WrapOnce, PQueueAssumption DEF Slots
<1>2. AtRest \in ThreadType
  BY <1>1 DEF AtRest, ThreadType, Places
<1>3. RingTypeOK
  BY <1>1, <1>2 DEF Init, RingTypeOK, OwnerType
<1>4. Quiet /\ ~Moving(Producers) /\ ~Moving(Consumers)
  BY DEF Init, Quiet, IsIdle, AtRest, Moving, Threads
<1>5. OnePerSide
  BY <1>4, PQueueAssumption DEF Init, OnePerSide, Quiet, Threads
<1>6. RingOrder
  BY <1>1, <1>4 DEF Init, RingOrder, NextFree, Oldest, Moving, Wrapped
<1>7. (\A p \in Producers : PushingOf(p)) /\ (\A c \in Consumers : PoppingOf(c))
  BY <1>4 DEF Quiet, IsIdle, PushingOf, PoppingOf, Threads
<1> QED BY <1>3, <1>4, <1>5, <1>6, <1>7 DEF Init, RingInv, UnusedUntilSetUp

LEMMA RingStep == RingInv /\ [Next]_vars => RingInv'
<1> SUFFICES ASSUME RingInv, [Next]_vars PROVE RingInv'
  OBVIOUS
<1>1. CASE UNCHANGED vars
  BY <1>1
  DEF vars, RingInv, RingTypeOK, OnePerSide, RingOrder, PushingOf, PoppingOf, IsIdle,
      UnusedUntilSetUp, NextFree, Oldest, Moving, Quiet
<1> QED BY <1>1, LifeStep, ProducerSteps, ConsumerSteps DEF Next

\* Whoever pushes and whoever pops never want the same slot.
THEOREM SlotsStayDisjoint == Spec => []SlotsDisjoint
<1>1. RingInv => SlotsDisjoint
  <2> SUFFICES ASSUME RingInv, NEW p \in Producers, NEW c \in Consumers,
                      thread[p].at \in {"slot", "copy"}, thread[c].at \in {"slot", "copy"}
               PROVE  tail # head
    BY DEF SlotsDisjoint
  <2>1. ~Moving(Producers) /\ ~Moving(Consumers) /\ PushingOf(p) /\ PoppingOf(c)
    BY ProducerAlone, ConsumerAlone DEF IsIdle, RingInv
  <2>2. numElements < MaxLength /\ numElements > 0
    BY <2>1, RingPlaces DEF PushingOf, PoppingOf, RingInv
  <2> QED BY <2>1, <2>2, TailIsFree
<1> QED BY <1>1, RingStart, RingStep, PTL DEF Spec

-----------------------------------------------------------------------------
(* The ring implements the bounded queue.                                    *)

\* The elements that are held, as a sequence.
HeldIsRing ==
    /\ HeldElements \in Seq(Data) /\ Len(HeldElements) = numElements
    /\ \A i \in 1..numElements : HeldElements[i] = memory[Wrapped(Oldest + i - 1)]

LEMMA HeldFacts == RingInv => HeldIsRing
<1> SUFFICES ASSUME RingInv PROVE HeldIsRing
  OBVIOUS
<1>1. numElements \in Nat /\ RingTypeOK
  BY RingPlaces DEF RingInv
<1>2. ASSUME NEW i \in 1..numElements
      PROVE  (Oldest + i - 1) % MaxLength = Wrapped(Oldest + i - 1)
  <2>1. Oldest + i - 1 \in Nat /\ Oldest + i - 1 < 2 * MaxLength
    BY <1>1, RingPlaces
  <2> QED BY <2>1, WrapOnce
<1>3. \A i \in 1..numElements : memory[(Oldest + i - 1) % MaxLength] \in Data
  BY <1>2 DEF RingInv, RingOrder
<1> QED BY <1>1, <1>2, <1>3 DEF HeldElements, HeldIsRing

LEMMA HeldFactsNext == RingInv' => HeldIsRing'
BY HeldFacts, PTL

\* Equal slots hold equal elements.
LEMMA HeldStays ==
    ASSUME RingInv, RingInv', numElements' = numElements, Oldest' = Oldest,
           \A i \in 1..numElements :
               memory'[Wrapped(Oldest + i - 1)] = memory[Wrapped(Oldest + i - 1)]
    PROVE  HeldElements' = HeldElements
<1>1. /\ HeldElements \in Seq(Data) /\ HeldElements' \in Seq(Data)
      /\ Len(HeldElements) = numElements /\ Len(HeldElements') = numElements
      /\ \A i \in 1..numElements : HeldElements[i] = memory[Wrapped(Oldest + i - 1)]
      /\ \A i \in 1..numElements : HeldElements'[i] = memory'[Wrapped(Oldest + i - 1)]
  BY HeldFacts, HeldFactsNext DEF HeldIsRing, Wrapped
<1> QED BY <1>1, SeqEqual

LEMMA HeldEmpty ==
    /\ RingInv /\ numElements = 0 => HeldElements = <<>>
    /\ RingInv' /\ numElements' = 0 => HeldElements' = <<>>
BY HeldFacts, HeldFactsNext DEF HeldIsRing

\* A push happens when the counter is incremented.
LEMMA CountPushIsPush ==
    ASSUME RingInv, RingInv', NEW p \in Producers, CountPush(p)
    PROVE  \E d \in Data : Bounded!Push(d)
<1>1. /\ p \in Threads /\ "move" \in Places /\ RingTypeOK /\ ~IsIdle(p)
      /\ thread \in [Threads -> ThreadType] /\ pushes \in Nat /\ MaxPushes \in Nat
  BY PQueueAssumption DEF Threads, Places, RingInv, RingTypeOK, CountPush, IsIdle
<1>2. /\ ~Moving(Producers) /\ pushes < MaxPushes /\ numElements < MaxLength
      /\ memory[tail] = pushes + 1
  BY <1>1, ProducerAlone DEF CountPush, RingInv, PushingOf
<1>3. /\ numElements' = numElements + 1 /\ UNCHANGED <<head, tail, memory, popped>>
      /\ \A u \in Threads \ {p} : thread'[u] = thread[u]
  BY <1>1, ThreadMoves DEF CountPush
<1>4. Oldest' = Oldest
  BY <1>3, OneProducerSteps DEF Oldest, Moving
<1>5. pushes + 1 \in Data
  BY <1>1, <1>2 DEF Data
<1>6. tail = Wrapped(Oldest + (numElements + 1) - 1)
  <2>1. tail = Wrapped(Oldest + numElements)
    BY <1>1, <1>2, RingPlaces DEF RingInv, RingOrder
  <2> QED BY <1>1, <2>1, RingPlaces
<1>7. HeldElements' = Append(HeldElements, pushes + 1)
  <2>1. /\ HeldElements \in Seq(Data) /\ Len(HeldElements) = numElements
        /\ \A i \in 1..numElements : HeldElements[i] = memory[Wrapped(Oldest + i - 1)]
    BY HeldFacts DEF HeldIsRing
  <2>2. /\ HeldElements' \in Seq(Data) /\ Len(HeldElements') = numElements + 1
        /\ \A i \in 1..numElements + 1 : HeldElements'[i] = memory[Wrapped(Oldest + i - 1)]
    BY <1>3, <1>4, HeldFactsNext DEF HeldIsRing, Wrapped
  <2>3. /\ Append(HeldElements, pushes + 1) \in Seq(Data)
        /\ Len(Append(HeldElements, pushes + 1)) = numElements + 1
        /\ Append(HeldElements, pushes + 1)[numElements + 1] = pushes + 1
        /\ \A i \in 1..numElements :
               Append(HeldElements, pushes + 1)[i] = HeldElements[i]
    BY <1>5, <2>1, AppendProperties
  <2>4. ASSUME NEW i \in 1..numElements + 1
        PROVE  HeldElements'[i] = Append(HeldElements, pushes + 1)[i]
    <3>1. CASE i = numElements + 1
      BY <1>2, <1>6, <2>2, <2>3, <3>1
    <3>2. CASE i # numElements + 1
      <4>1. i \in 1..numElements
        BY <3>2, <1>1, RingPlaces
      <4> QED BY <2>1, <2>2, <2>3, <4>1
    <3> QED BY <3>1, <3>2
  <2> QED BY <2>2, <2>3, <2>4, SeqEqual
<1>8. Len(HeldElements) < MaxLength
  BY <1>2, HeldFacts DEF HeldIsRing
<1> QED BY <1>3, <1>5, <1>7, <1>8 DEF Bounded!Push

\* A pop happens when the counter is decremented, and delivers the oldest.
LEMMA CountPopIsPop ==
    ASSUME RingInv, RingInv', NEW c \in Consumers, CountPop(c)
    PROVE  Bounded!Pop
<1>1. /\ RingTypeOK /\ head \in Slots /\ MaxLength \in Nat \ {0}
      /\ UNCHANGED <<head, tail, memory>>
  BY PQueueAssumption DEF RingInv, RingTypeOK, CountPop
<1>2. /\ Oldest = head /\ numElements \in 1..MaxLength /\ memory[head] \in Data
      /\ numElements' = numElements - 1 /\ popped' = Append(popped, memory[head])
  BY CountPopFacts
<1>3. Oldest' = Wrapped(head + 1)
  BY <1>1, CountPopFacts, SlotFacts DEF Oldest, Moving
<1>4. /\ HeldElements \in Seq(Data) /\ Len(HeldElements) = numElements
      /\ \A i \in 1..numElements : HeldElements[i] = memory[Wrapped(head + i - 1)]
  BY <1>2, HeldFacts DEF HeldIsRing
<1>5. /\ HeldElements' \in Seq(Data) /\ Len(HeldElements') = numElements - 1
      /\ \A i \in 1..numElements - 1 :
             HeldElements'[i] = memory[Wrapped(Wrapped(head + 1) + i - 1)]
  BY <1>1, <1>2, <1>3, HeldFactsNext DEF HeldIsRing, Wrapped
<1>6. HeldElements # <<>> /\ Head(HeldElements) = memory[head]
  <2>1. Wrapped(head + 1 - 1) = head
    BY <1>1, RingPlaces DEF Wrapped
  <2>2. HeldElements[1] = memory[head] /\ Len(HeldElements) > 0
    BY <1>2, <1>4, <2>1
  <2> QED BY <1>4, <2>2
<1>7. HeldElements' = Tail(HeldElements)
  <2>1. /\ Tail(HeldElements) \in Seq(Data) /\ Len(Tail(HeldElements)) = numElements - 1
        /\ \A i \in 1..numElements - 1 : Tail(HeldElements)[i] = HeldElements[i + 1]
    BY <1>2, <1>4, <1>6
  <2>2. ASSUME NEW i \in 1..numElements - 1
        PROVE  HeldElements'[i] = Tail(HeldElements)[i]
    <3>1. i + 1 \in 1..numElements
      BY <1>2
    <3>2. Wrapped(head + (i + 1) - 1) = Wrapped(Wrapped(head + 1) + i - 1)
      BY <1>1, <1>2, <3>1, RingPlaces DEF Wrapped
    <3> QED BY <1>4, <1>5, <2>1, <3>1, <3>2
  <2> QED BY <1>5, <2>1, <2>2, SeqEqual
<1> QED BY <1>2, <1>6, <1>7 DEF Bounded!Pop

\* Every other step of a thread changes neither what is held nor what was
\* delivered.
LEMMA OtherStepsStutter ==
    ASSUME RingInv, RingInv', NEW t \in Threads,
           \/ t \in Producers /\ (\/ PushLock(t) \/ PushCheck(t) \/ LockSlot(t, tail)
                                  \/ StoreData(t) \/ StoreDataFails(t) \/ MoveTail(t))
           \/ t \in Consumers /\ (\/ PopLock(t) \/ WakesUp(t) \/ PopCheck(t)
                                  \/ LockSlot(t, head) \/ RetrieveData(t)
                                  \/ RetrieveDataFails(t))
    PROVE  UNCHANGED <<HeldElements, popped>>
<1>1. /\ UNCHANGED <<head, numElements, popped>>
      /\ \A u \in Threads \ {t} : thread'[u] = thread[u]
  BY DEF PushLock, PushCheck, LockSlot, StoreData, StoreDataFails, MoveTail, PopLock, WakesUp,
         PopCheck, RetrieveData, RetrieveDataFails, At, Return, ringVars,
         RingInv, RingTypeOK
<1>2. Moving(Consumers)' <=> Moving(Consumers)
  <2>1. CASE t \in Producers
    BY <1>1, <2>1, OneProducerSteps
  <2>2. CASE t \in Consumers
    <3>1. /\ PopLock(t) \/ WakesUp(t) \/ PopCheck(t) \/ LockSlot(t, head)
             \/ RetrieveData(t) \/ RetrieveDataFails(t)
      BY <2>2, PQueueAssumption
    <3>2. ~Moving(Consumers)'
      BY <2>2, <3>1, PopLockStep, WakesUpStep, PopCheckStep, PopLockSlotStep,
         RetrieveDataStep, RetrieveDataFailsStep
    <3>3. CASE IsIdle(t)
      <4>1. owner.pop = Null
        BY <3>1, <3>3
        DEF IsIdle, PopLock, WakesUp, PopCheck, LockSlot, RetrieveData, RetrieveDataFails
      <4> QED BY <4>1, <3>2, SideFree
    <3>4. CASE ~IsIdle(t)
      <4>1. thread[t].at # "move"
        BY <3>1, <3>4
        DEF IsIdle, PopLock, WakesUp, PopCheck, LockSlot, RetrieveData, RetrieveDataFails
      <4> QED BY <4>1, <2>2, <3>2, <3>4, ConsumerAlone
    <3> QED BY <3>3, <3>4
  <2> QED BY <2>1, <2>2 DEF Threads
<1>3. Oldest' = Oldest
  BY <1>1, <1>2 DEF Oldest, Moving
<1>4. ASSUME NEW i \in 1..numElements
      PROVE  memory'[Wrapped(Oldest + i - 1)] = memory[Wrapped(Oldest + i - 1)]
  <2>1. CASE t \in Producers /\ StoreData(t)
    <3>1. ~Moving(Producers) /\ numElements < MaxLength
      BY <2>1, ProducerAlone DEF StoreData, IsIdle, RingInv, PushingOf
    <3>2. Wrapped(Oldest + i - 1) # tail
      BY <3>1, TailIsFree
    <3> QED BY <2>1, <3>2, RingPlaces DEF StoreData, RingInv, RingTypeOK, Wrapped
  <2>2. CASE memory' = memory
    BY <2>2
  <2> QED
    BY <2>1, <2>2 DEF PushLock, PushCheck, LockSlot, StoreDataFails, MoveTail, PopLock,
                      WakesUp, PopCheck, RetrieveData, RetrieveDataFails, ringVars
<1> QED BY <1>1, <1>3, <1>4, HeldStays

LEMMA MoveHeadStutters ==
    ASSUME RingInv, RingInv', NEW c \in Consumers, MoveHead(c)
    PROVE  UNCHANGED <<HeldElements, popped>>
<1>1. /\ c \in Threads /\ thread \in [Threads -> ThreadType] /\ ~IsIdle(c)
      /\ head' = Following(head) /\ UNCHANGED <<numElements, memory, popped>>
      /\ \A u \in Threads \ {c} : thread'[u] = thread[u]
  BY DEF MoveHead, Threads, IsIdle, RingInv, RingTypeOK, Return
<1>2. Moving(Consumers) /\ \A d \in Consumers \ {c} : thread[d].at = "idle"
  BY <1>1, ConsumerAlone DEF MoveHead
<1>3. thread'[c].at # "move"
  <2>1. CASE thread[c].todo = 1
    BY <1>1, <2>1, ThreadReturns DEF MoveHead
  <2>2. CASE thread[c].todo # 1
    <3> DEFINE r == [[thread[c] EXCEPT !.at = "slot"] EXCEPT !.todo = thread[c].todo - 1]
    <3>1. thread' = [thread EXCEPT ![c] = r] /\ thread[c] \in ThreadType
      BY <1>1, <2>2 DEF MoveHead
    <3>2. r.at = "slot"
      BY <3>1 DEF ThreadType
    <3> HIDE DEF r
    <3> QED BY <1>1, <3>1, <3>2
  <2> QED BY <2>1, <2>2
<1>4. Oldest' = Oldest
  BY <1>1, <1>2, <1>3, OneConsumerSteps DEF Oldest, Moving
<1> QED BY <1>1, <1>4, HeldStays

\* What the queue does while nobody uses it empties it or leaves it empty.
LEMMA LifeKeepsEmpty ==
    ASSUME RingInv, RingInv',
           (\E fails \in {{}} \cup {{s} : s \in Fallible} :
                PQueue_init(fails) \/ PQueue_setupElement(fails)) \/ PQueue_clear
    PROVE  Bounded!Clear \/ UNCHANGED <<HeldElements, popped>>
<1>1. CASE \E fails \in {{}} \cup {{s} : s \in Fallible} : PQueue_init(fails)
  <2>1. numElements = 0 /\ numElements' = 0 /\ popped' = popped
    BY <1>1 DEF PQueue_init, RingInv, UnusedUntilSetUp, ringVars
  <2> QED BY <2>1, HeldEmpty
<1>2. CASE \E fails \in {{}} \cup {{s} : s \in Fallible} : PQueue_setupElement(fails)
  <2>1. life.valid # "valid"
    BY <1>2 DEF PQueue_setupElement, Between, Stages, StageNumber
  <2>2. numElements = 0 /\ numElements' = 0 /\ popped' = popped
    BY <1>2, <2>1 DEF PQueue_setupElement, RingInv, UnusedUntilSetUp
  <2> QED BY <2>2, HeldEmpty
<1>3. CASE PQueue_clear
  BY <1>3, HeldEmpty DEF PQueue_clear, Bounded!Clear
<1> QED BY <1>1, <1>2, <1>3

LEMMA RingStepIsQueueStep ==
    RingInv /\ RingInv' /\ [Next]_vars => [Bounded!Next]_<<HeldElements, popped>>
<1> SUFFICES ASSUME RingInv, RingInv', [Next]_vars
             PROVE  [Bounded!Next]_<<HeldElements, popped>>
  OBVIOUS
<1>1. CASE UNCHANGED vars
  BY <1>1 DEF vars, HeldElements, Oldest
<1>2. CASE (\E fails \in {{}} \cup {{s} : s \in Fallible} :
                PQueue_init(fails) \/ PQueue_setupElement(fails)) \/ PQueue_clear
  BY <1>2, LifeKeepsEmpty DEF Bounded!Next
<1>3. ASSUME NEW p \in Producers, PushLock(p) \/ Producer(p)
      PROVE  [Bounded!Next]_<<HeldElements, popped>>
  BY <1>3, CountPushIsPush, OtherStepsStutter DEF Producer, Bounded!Next, Threads
<1>4. ASSUME NEW c \in Consumers, PopLock(c) \/ Consumer(c) \/ WakesUp(c)
      PROVE  [Bounded!Next]_<<HeldElements, popped>>
  BY <1>4, CountPopIsPop, MoveHeadStutters, OtherStepsStutter
  DEF Consumer, Bounded!Next, Threads
<1> QED BY <1>1, <1>2, <1>3, <1>4 DEF Next

\* The ring with its locks and its atomic counter is a bounded queue: elements
\* leave it in the order in which they came, none twice, none before it is
\* stored, and never more than MaxLength are held.
THEOREM RingIsAQueue == Spec => ImplementsQueue
<1>1. RingInv /\ Init => Bounded!Init
  BY HeldEmpty DEF Init, Bounded!Init
<1> QED
  BY <1>1, RingStart, RingStep, RingStepIsQueueStep, PTL
  DEF Spec, ImplementsQueue, Bounded!Spec

-----------------------------------------------------------------------------
(* The stages of a queue and the resources they stand for.                   *)

LEMMA StagesAreDistinct ==
    /\ DOMAIN Stages = 1..25
    /\ \A i, j \in 1..25 : Stages[i] = Stages[j] => i = j
BY DEF Stages

LEMMA StageFacts ==
    /\ \A i \in 1..25 : StageNumber(Stages[i]) = i /\ Stages[i] \in StageNames
    /\ \A s \in StageNames : StageNumber(s) \in 1..25 /\ Stages[StageNumber(s)] = s
    /\ "valid" \notin StageNames /\ "invalid" \notin StageNames
<1>1. /\ \A i \in 1..25 : StageNumber(Stages[i]) = i /\ Stages[i] \in StageNames
      /\ \A s \in StageNames : StageNumber(s) \in 1..25 /\ Stages[StageNumber(s)] = s
  BY StagesAreDistinct DEF StageNumber, StageNames
<1>2. "valid" \notin StageNames /\ "invalid" \notin StageNames
  BY StagesAreDistinct DEF Stages, StageNames
<1> QED BY <1>1, <1>2

\* The stages whose numbers the proofs below compare.
LEMMA StageNumbers ==
    /\ Stages[1] = "clean" /\ Stages[5] = "pushCondNew" /\ Stages[6] = "pushCondInit" /\ Stages[9] = "memLockInit"
    /\ Stages[12] = "getSerializeFunc" /\ Stages[16] = "memChannelReadInit"
    /\ Stages[17] = "serializeWriteNew" /\ Stages[18] = "serializeReadNew"
    /\ Stages[19] = "miscInit" /\ Stages[20] = "sizeInit" /\ Stages[21] = "elementMemoryAlloc"
    /\ Stages[23] = "memChannelReadOpen" /\ Stages[24] = "serializeWriteInit"
    /\ Stages[25] = "serializeReadInit"
    /\ \A n \in {2, 3, 4, 5} : Stages[n+1] \notin Fallible
BY DEF Stages, Fallible

\* The resources of the stages up to the one with number n.
UpTo(n) == {Stages[i] : i \in 2..n}
Number(q) == StageNumber(q.valid)

\* A queue at one of its stages, with the resources of just these stages.
Kept(q) ==
    /\ q \in QueueType /\ q.valid \in StageNames
    /\ q.held = UpTo(Number(q)) /\ q.leaked = {}

AtMostOne(fails) == fails = {} \/ \E s \in Fallible : fails = {s}

LEMMA BetweenIs ==
    ASSUME NEW a \in 1..25, NEW b \in 1..25, NEW s \in StageNames
    PROVE  s \in Between(Stages[a], Stages[b]) <=> StageNumber(s) \in a..b
BY StageFacts DEF Between

LEMMA UpToIs == \A n \in 1..25 : HeldUpTo(Stages[n]) = UpTo(n)
<1> SUFFICES ASSUME NEW n \in 1..25 PROVE HeldUpTo(Stages[n]) = UpTo(n)
  OBVIOUS
<1>1. Stages[n] \in StageNames /\ StageNumber(Stages[n]) = n /\ StageNumber("clean") = 1
  BY StageFacts, StageNumbers
<1>2. Between("clean", Stages[n]) = {Stages[i] : i \in 1..n}
  BY <1>1 DEF Between
<1>3. {Stages[i] : i \in 1..n} \ {"clean"} = UpTo(n)
  BY StagesAreDistinct, StageNumbers DEF UpTo
<1>4. Stages[n] # "invalid" /\ Stages[n] # "valid"
  BY <1>1, StageFacts
<1> QED BY <1>2, <1>3, <1>4 DEF HeldUpTo
\* What Acquire makes of a queue q, from stage a to stage b.
Acquired(q, r, a, b, fails) ==
    /\ Kept(r) /\ r.aborted = q.aborted /\ Number(r) \in 1..25
    /\ (q.status # "ok" \/ Number(q) \notin a..b - 1) => r = q
    /\ (q.status = "ok" /\ Number(q) \in a..b - 1) =>
          /\ Number(r) \in Number(q)..b
          /\ \/ r.status = "ok" /\ Number(r) = b
             \/ /\ r.status = "failed" /\ Number(r) < b
                /\ Stages[Number(r) + 1] \in fails
          /\ fails = {} => r.status = "ok"

LEMMA AcquireKeeps ==
    ASSUME NEW q, Kept(q), NEW a \in 1..25, NEW b \in 1..25, a < b,
           NEW fails, AtMostOne(fails)
    PROVE  Acquired(q, Acquire(q, Stages[a], Stages[b], fails), a, b, fails)
<1> DEFINE goal == StageNumber(Stages[b])
           todo == (StageNumber(q.valid) + 1)..goal
           bad == {i \in todo : Stages[i] \in fails}
           end == IF bad = {} THEN goal ELSE (CHOOSE i \in bad : \A j \in bad : i <= j) - 1
           gained == {Stages[i] : i \in (StageNumber(q.valid) + 1)..end}
           r == Acquire(q, Stages[a], Stages[b], fails)
<1>1. /\ goal = b /\ Number(q) \in 1..25 /\ Stages[Number(q)] = q.valid
      /\ StageNumber(q.valid) = Number(q)
  BY StageFacts DEF Kept, Number
<1>2. q.valid \in Between(Stages[a], Stages[b]) <=> Number(q) \in a..b
  BY BetweenIs DEF Kept, Number
<1>3. q.valid = Stages[b] <=> Number(q) = b
  BY <1>1, StageFacts
<1>4. CASE q.status # "ok" \/ Number(q) \notin a..b - 1
  <2>1. r = q
    BY <1>2, <1>3, <1>4, <1>1 DEF Acquire
  <2> QED BY <1>1, <2>1, <1>4 DEF Acquired
<1>5. CASE q.status = "ok" /\ Number(q) \in a..b - 1
  <2>1. r = [q EXCEPT !.valid = Stages[end], !.held = @ \cup gained,
                      !.leaked = @ \cup (gained \cap q.held),
                      !.status = IF bad = {} THEN "ok" ELSE "failed"]
    BY <1>1, <1>2, <1>3, <1>5 DEF Acquire
  <2>2. /\ end \in Number(q)..b
        /\ bad = {} => end = b
        /\ bad # {} => end < b /\ Stages[end + 1] \in fails
        /\ fails = {} => bad = {}
    <3>1. CASE bad = {}
      BY <3>1, <1>1, <1>5
    <3>2. CASE bad # {}
      <4>1. PICK i \in bad : TRUE
        BY <3>2
      <4>2. fails = {Stages[i]}
        BY <4>1 DEF AtMostOne
      <4>3. i \in Number(q) + 1 .. b
        BY <1>1, <4>1
      <4>4. \A j \in bad : j = i
        BY <1>1, <4>2, <4>3, StagesAreDistinct
      <4>5. (CHOOSE k \in bad : \A j \in bad : k <= j) = i
        BY <4>1, <4>3, <4>4
      <4>6. end = i - 1
        BY <3>2, <4>5
      <4> HIDE DEF end, bad
      <4> QED BY <1>1, <3>2, <4>2, <4>3, <4>6
    <3> QED BY <3>1, <3>2
  <2>3. gained = {Stages[i] : i \in Number(q) + 1 .. end}
    BY <1>1
  <2> HIDE DEF end, bad, gained, r
  <2>4. /\ r.valid = Stages[end] /\ r.held = q.held \cup gained
        /\ r.leaked = q.leaked \cup (gained \cap q.held)
        /\ r.status = (IF bad = {} THEN "ok" ELSE "failed") /\ r.aborted = q.aborted
    BY <2>1 DEF Kept, QueueType
  <2>5. Stages[end] \in StageNames /\ Number(r) = end /\ gained \subseteq StageNames
    BY <1>1, <2>2, <2>3, <2>4, StageFacts DEF Number
  <2>6. q.held = UpTo(Number(q)) /\ q.leaked = {}
    BY DEF Kept
  <2>7. gained \cap q.held = {}
    BY <1>1, <2>2, <2>3, <2>6, StagesAreDistinct DEF UpTo
  <2>8. q.held \cup gained = UpTo(end)
    BY <1>1, <2>2, <2>3, <2>6 DEF UpTo
  <2>9. r \in QueueType
    BY <2>1, <2>5, <2>6, <2>7 DEF QueueType, Kept
  <2>10. Kept(r)
    BY <2>4, <2>5, <2>6, <2>7, <2>8, <2>9 DEF Kept
  <2>11. (q.status = "ok" /\ Number(q) \in a..b - 1) =>
                     /\ Number(r) \in Number(q)..b
                     /\ \/ r.status = "ok" /\ Number(r) = b
                        \/ /\ r.status = "failed" /\ Number(r) < b
                           /\ Stages[Number(r) + 1] \in fails
                     /\ fails = {} => r.status = "ok"
    BY <2>2, <2>4, <2>5
  <2> QED BY <1>1, <1>5, <2>2, <2>4, <2>5, <2>10, <2>11 DEF r, Acquired
<1> QED BY <1>4, <1>5
\* A queue between two calls: no stage is left half-way, and the first ones
\* are reached together or not at all.
Rests(q) ==
    /\ q \in QueueType /\ q.leaked = {} /\ q.held = HeldUpTo(q.valid)
    /\ q.valid \in StageNames => Number(q) \notin {2, 3, 4, 5, 25}

LEMMA KeptIsHeld ==
    ASSUME NEW q, q \in QueueType, q.valid \in StageNames
    PROVE  /\ Number(q) \in 1..25 /\ q.valid = Stages[Number(q)]
           /\ Kept(q) <=> q.held = HeldUpTo(q.valid) /\ q.leaked = {}
BY StageFacts, UpToIs DEF Kept, Number

\* Where PQueue_init begins: at the stage that was reached, which holds nothing
\* when it has to start over.
Entered(p) == [p EXCEPT !.valid = IF @ = "invalid" THEN "clean" ELSE @, !.status = "ok"]
Started(q) == IF InitRestarts(q) THEN [Forget(q) EXCEPT !.valid = "clean"] ELSE q

LEMMA InitBegins ==
    ASSUME NEW p, Rests(p), p.valid # "valid"
    PROVE  /\ Kept(Entered(p)) /\ Number(Entered(p)) \in 1..25 /\ Entered(p).valid # "valid"
           /\ Entered(p).valid \in Between("clean", "serializeReadNew")
                  <=> Number(Entered(p)) \in 1..18
           /\ Number(Entered(p)) = IF p.valid = "invalid" THEN 1 ELSE Number(p)
           /\ Started(Entered(p)) = Entered(p)
           /\ Entered(p).status = "ok" /\ Entered(p).aborted = p.aborted
<1> DEFINE q == Entered(p)
<1>0. "clean" \in StageNames /\ StageNumber("clean") = 1
  BY StageFacts, StageNumbers
<1>1. /\ q \in QueueType /\ q.valid = (IF p.valid = "invalid" THEN "clean" ELSE p.valid)
      /\ q.held = p.held /\ q.leaked = {} /\ q.status = "ok" /\ q.aborted = p.aborted
      /\ q.valid \in StageNames
  BY <1>0 DEF Rests, QueueType, Entered
<1>2. q.held = HeldUpTo(q.valid)
  <2>1. HeldUpTo("invalid") = {} /\ HeldUpTo("clean") = {}
    BY UpToIs, StageNumbers DEF HeldUpTo, UpTo
  <2> QED BY <1>1, <2>1 DEF Rests
<1> HIDE DEF q
<1>3. Kept(q) /\ Number(q) \in 1..25 /\ q.valid = Stages[Number(q)]
  BY <1>1, <1>2, KeptIsHeld
<1>4. /\ q.valid \in Between("clean", "serializeReadNew") <=> Number(q) \in 1..18
      /\ q.valid \in Between("clean", "pushCondNew") <=> Number(q) \in 1..5
  BY <1>1, BetweenIs, StageNumbers DEF Number
<1>5. Number(q) = IF p.valid = "invalid" THEN 1 ELSE Number(p)
  BY <1>0, <1>1 DEF Number
<1>6. Started(q) = q
  <2>1. CASE InitRestarts(q)
    <3>1. Number(q) = 1 /\ q.valid = "clean"
      BY <1>0, <1>1, <1>3, <1>4, <1>5, <2>1, StageNumbers DEF InitRestarts, Rests
    <3>2. q.held = {} /\ Started(q) = [Forget(q) EXCEPT !.valid = "clean"]
      BY <1>3, <2>1, <3>1 DEF Kept, UpTo, Started
    <3> DEFINE f == Forget(q)
    <3>3. /\ f \in QueueType /\ f.valid = q.valid /\ f.held = {} /\ f.leaked = {}
          /\ f.status = q.status /\ f.aborted = q.aborted
      BY <1>1, <3>2 DEF Forget, QueueType
    <3> HIDE DEF f
    <3>4. f = q
      BY <1>1, <3>2, <3>3 DEF QueueType
    <3>5. [f EXCEPT !.valid = "clean"] = q
      BY <1>1, <3>1, <3>4 DEF QueueType
    <3> QED BY <3>2, <3>5 DEF f
  <2>2. CASE ~InitRestarts(q)
    BY <2>2 DEF Started
  <2> QED BY <2>1, <2>2
<1> QED BY <1>1, <1>3, <1>4, <1>5, <1>6, StageFacts DEF q

\* What holds once the stage with number n is reached or missed by PQueue_init.
StagesReached(r, p, n, fails) ==
    /\ Kept(r) /\ r.aborted = p.aborted
    /\ \/ r.status = "ok" /\ Number(r) \in n..(IF n = 19 THEN 19 ELSE 18)
       \/ r.status = "failed" /\ Number(r) \in 1..18 /\ fails # {}
    /\ Number(r) \notin {2, 3, 4, 5}

\* PQueue_init reaches miscInit or stops before a stage that failed.
LEMMA InitOutcome ==
    ASSUME NEW p, Rests(p), p.valid # "valid",
           p.valid # "invalid" => Number(p) \in 1..18,
           NEW fails, AtMostOne(fails)
    PROVE  LET r == PQueueInit(p, fails)
           IN  /\ Rests(r) /\ r.aborted = p.aborted
               /\ r.valid \in StageNames /\ Number(r) \in 1..19
               /\ r.status = "ok" <=> r.valid = "miscInit"
               /\ fails = {} => r.status = "ok"
<1> DEFINE r0 == Started(Entered(p))
           r1 == Acquire(r0, "clean", "pushCondInit", fails)
           r2 == Acquire(r1, "pushCondInit", "memLockInit", fails)
           r3 == Acquire(r2, "memLockInit", "getSerializeFunc", fails)
           r4 == Acquire(r3, "getSerializeFunc", "memChannelReadInit", fails)
           r5 == Acquire(r4, "elementMemoryAlloc", "memChannelReadOpen", fails)
           r6 == Acquire(r5, "memChannelReadInit", "serializeReadNew", fails)
           r7 == Acquire(r6, "memChannelReadOpen", "serializeReadInit", fails)
           r8 == Acquire(r7, "serializeReadNew", "miscInit", fails)
<1>0. /\ Kept(r0) /\ r0.status = "ok" /\ r0.aborted = p.aborted
      /\ Number(r0) \in {1} \cup 6..18 /\ Entered(p).valid # "valid"
      /\ Entered(p).valid \in Between("clean", "serializeReadNew")
  <2>1. p.valid \in StageNames \/ p.valid = "invalid"
    BY DEF Rests, QueueType
  <2>2. p.valid # "invalid" => Number(p) \in {1} \cup 6..18
    BY <2>1 DEF Rests
  <2>3. Number(Entered(p)) \in {1} \cup 6..18
    BY <2>2, InitBegins
  <2> QED BY <2>3, InitBegins
<1>a. PQueueInit(p, fails) = r8
  BY <1>0 DEF PQueueInit, InitMutex, InitMemLock, InitDynamicLoader, InitIOChannel, InitSerialize,
        InitMisc, Entered, Started
<1> HIDE DEF r0
<1>1. StagesReached(r1, p, 6, fails)
  <2>1. Acquired(r0, r1, 1, 6, fails)
    BY <1>0, AcquireKeeps, StageNumbers
  <2>2. \A k \in 1..5 : Stages[k + 1] \in fails => k = 1
    BY StageNumbers DEF AtMostOne
  <2> HIDE DEF r1
  <2> QED BY <2>1, <1>0, <2>2 DEF Acquired, StagesReached
<1> HIDE DEF r1
<1>2. StagesReached(r2, p, 9, fails)
  <2>1. Acquired(r1, r2, 6, 9, fails)
    BY <1>1, AcquireKeeps, StageNumbers DEF StagesReached
  <2> HIDE DEF r2
  <2> QED BY <2>1, <1>1 DEF Acquired, StagesReached
<1> HIDE DEF r2
<1>3. StagesReached(r3, p, 12, fails)
  <2>1. Acquired(r2, r3, 9, 12, fails)
    BY <1>2, AcquireKeeps, StageNumbers DEF StagesReached
  <2> HIDE DEF r3
  <2> QED BY <2>1, <1>2 DEF Acquired, StagesReached
<1> HIDE DEF r3
<1>4. StagesReached(r4, p, 16, fails)
  <2>1. Acquired(r3, r4, 12, 16, fails)
    BY <1>3, AcquireKeeps, StageNumbers DEF StagesReached
  <2> HIDE DEF r4
  <2> QED BY <2>1, <1>3 DEF Acquired, StagesReached
<1> HIDE DEF r4
<1>5. StagesReached(r5, p, 16, fails)
  <2>1. Acquired(r4, r5, 21, 23, fails)
    BY <1>4, AcquireKeeps, StageNumbers DEF StagesReached
  <2> HIDE DEF r5
  <2> QED BY <2>1, <1>4 DEF Acquired, StagesReached
<1> HIDE DEF r5
<1>6. StagesReached(r6, p, 18, fails)
  <2>1. Acquired(r5, r6, 16, 18, fails)
    BY <1>5, AcquireKeeps, StageNumbers DEF StagesReached
  <2> HIDE DEF r6
  <2> QED BY <2>1, <1>5 DEF Acquired, StagesReached
<1> HIDE DEF r6
<1>7. StagesReached(r7, p, 18, fails)
  <2>1. Acquired(r6, r7, 23, 25, fails)
    BY <1>6, AcquireKeeps, StageNumbers DEF StagesReached
  <2> HIDE DEF r7
  <2> QED BY <2>1, <1>6 DEF Acquired, StagesReached
<1> HIDE DEF r7
<1>8. StagesReached(r8, p, 19, fails)
  <2>1. Acquired(r7, r8, 18, 19, fails)
    BY <1>7, AcquireKeeps, StageNumbers DEF StagesReached
  <2> HIDE DEF r8
  <2> QED BY <2>1, <1>7 DEF Acquired, StagesReached
<1> HIDE DEF r8
<1>9. /\ r8 \in QueueType /\ r8.valid \in StageNames /\ Kept(r8)
      /\ Number(r8) \in 1..19 /\ Number(r8) \notin {2, 3, 4, 5}
  BY <1>8 DEF Kept, StagesReached
<1>10. r8.valid = "miscInit" <=> Number(r8) = 19
  BY <1>9, KeptIsHeld, StageNumbers, StagesAreDistinct
<1>11. Rests(r8)
  BY <1>9, KeptIsHeld DEF Rests
<1> QED BY <1>a, <1>8, <1>9, <1>10, <1>11 DEF StagesReached

\* What holds once the stage with number n is reached or missed by
\* PQueue_setupElement.
SetUpTo(r, p, n, fails) ==
    /\ Kept(r) /\ r.aborted = p.aborted
    /\ \/ r.status = "ok" /\ Number(r) \in n..(IF n = 25 THEN 25 ELSE 23)
       \/ r.status = "failed" /\ Number(r) \in 19..24

\* A queue that PQueue_setupElement may be called for.
CanBeSetUp(q) == q.valid = "valid" \/ (q.valid \in StageNames /\ Number(q) \in 19..24)

\* PQueue_setupElement reaches the last stage or stops before one that failed; it
\* runs into an assertion only where the second serializer was left.
LEMMA SetupOutcome ==
    ASSUME NEW p, Rests(p), CanBeSetUp(p), NEW fails, AtMostOne(fails)
    PROVE  LET r == PQueueSetupElement(p, fails)
           IN  /\ Rests(r) /\ CanBeSetUp(r)
               /\ r.aborted => p.aborted \/ r.valid = "serializeWriteInit"
               /\ ~r.aborted /\ r.status \in {"ok", "alreadySetup"} => r.valid = "valid"
<1> DEFINE r0 == [p EXCEPT !.status = "ok"]
           r1 == Acquire(r0, "miscInit", "sizeInit", fails)
           r2 == Acquire(r1, "sizeInit", "elementMemoryAlloc", fails)
           r3 == Acquire(r2, "getSerializeFunc", "memChannelReadInit", fails)
           r4 == Acquire(r3, "elementMemoryAlloc", "memChannelReadOpen", fails)
           r5 == Acquire(r4, "memChannelReadInit", "serializeReadNew", fails)
           r6 == Acquire(r5, "memChannelReadOpen", "serializeReadInit", fails)
<1> DEFINE r == PQueueSetupElement(p, fails)
<1>1. /\ r0 \in QueueType /\ r0.valid = p.valid /\ r0.held = p.held /\ r0.leaked = {}
      /\ r0.status = "ok" /\ r0.aborted = p.aborted
  BY DEF Rests, QueueType
<1>a. r = IF r0.valid = "valid" THEN [r0 EXCEPT !.status = "alreadySetup"]
          ELSE IF r0.valid \notin SetupStages THEN Abort(r0)
          ELSE IF r6.valid = "serializeReadInit" THEN [r6 EXCEPT !.valid = "valid"] ELSE r6
  BY DEF PQueueSetupElement, InitSerialize, InitIOChannel, InitElementMemory, InitSize
<1> HIDE DEF r0, r
<1>b. CASE p.valid = "valid"
  <2>1. r = [r0 EXCEPT !.status = "alreadySetup"]
    BY <1>1, <1>a, <1>b
  <2>2. r \in QueueType /\ r.valid = "valid" /\ r.held = p.held /\ r.leaked = {}
        /\ r.aborted = p.aborted
    BY <1>1, <1>b, <2>1 DEF QueueType
  <2>3. (r.aborted <=> p.aborted) /\ Rests(r)
    BY <1>b, <2>2, StageFacts DEF Rests, QueueType
  <2> QED BY <2>2, <2>3 DEF CanBeSetUp, r
<1>c. CASE p.valid # "valid"
  <2>1. /\ p.valid \in StageNames /\ Number(p) \in 19..24 /\ Number(r0) = Number(p)
        /\ p.valid = Stages[Number(p)]
    BY <1>1, <1>c, StageFacts DEF CanBeSetUp, Number
  <2>2. r0.valid \in SetupStages <=> Number(p) \in 19..23
    <3>1. r0.valid \in Between("miscInit", "memChannelReadOpen") <=> Number(p) \in 19..23
      BY <1>1, <2>1, BetweenIs, StageNumbers DEF Number
    <3>2. r0.valid # "serializeWriteNew"
      BY <1>1, <2>1, StageNumbers, StagesAreDistinct
    <3> QED BY <3>1, <3>2 DEF SetupStages
  <2>3. CASE Number(p) = 24
    <3>1. r = Abort(r0) /\ p.valid = "serializeWriteInit"
      BY <1>1, <1>a, <1>c, <2>1, <2>2, <2>3, StageNumbers
    <3>2. /\ r \in QueueType /\ r.valid = p.valid /\ r.held = p.held /\ r.leaked = {}
          /\ r.aborted
      BY <1>1, <3>1 DEF Abort, QueueType
    <3> QED BY <2>1, <2>3, <3>1, <3>2 DEF Rests, CanBeSetUp, Number, r
  <2>4. CASE Number(p) \in 19..23
    <3>0. Kept(r0) /\ r = IF r6.valid = "serializeReadInit" THEN [r6 EXCEPT !.valid = "valid"] ELSE r6
      BY <1>1, <1>a, <1>c, <2>1, <2>2, <2>4, KeptIsHeld DEF Rests
    <3>1. SetUpTo(r1, p, 20, fails)
      <4>1. Acquired(r0, r1, 19, 20, fails)
        BY <3>0, AcquireKeeps, StageNumbers
      <4> HIDE DEF r1
      <4> QED BY <4>1, <1>1, <2>1, <2>4, <3>0 DEF Acquired, SetUpTo
    <3> HIDE DEF r1
    <3>2. SetUpTo(r2, p, 21, fails)
      <4>1. Acquired(r1, r2, 20, 21, fails)
        BY <3>1, AcquireKeeps, StageNumbers DEF SetUpTo
      <4> HIDE DEF r2
      <4> QED BY <4>1, <3>1 DEF Acquired, SetUpTo
    <3> HIDE DEF r2
    <3>3. SetUpTo(r3, p, 21, fails)
      <4>1. Acquired(r2, r3, 12, 16, fails)
        BY <3>2, AcquireKeeps, StageNumbers DEF SetUpTo
      <4> HIDE DEF r3
      <4> QED BY <4>1, <3>2 DEF Acquired, SetUpTo
    <3> HIDE DEF r3
    <3>4. SetUpTo(r4, p, 23, fails)
      <4>1. Acquired(r3, r4, 21, 23, fails)
        BY <3>3, AcquireKeeps, StageNumbers DEF SetUpTo
      <4> HIDE DEF r4
      <4> QED BY <4>1, <3>3 DEF Acquired, SetUpTo
    <3> HIDE DEF r4
    <3>5. SetUpTo(r5, p, 23, fails)
      <4>1. Acquired(r4, r5, 16, 18, fails)
        BY <3>4, AcquireKeeps, StageNumbers DEF SetUpTo
      <4> HIDE DEF r5
      <4> QED BY <4>1, <3>4 DEF Acquired, SetUpTo
    <3> HIDE DEF r5
    <3>6. SetUpTo(r6, p, 25, fails)
      <4>1. Acquired(r5, r6, 23, 25, fails)
        BY <3>5, AcquireKeeps, StageNumbers DEF SetUpTo
      <4> HIDE DEF r6
      <4> QED BY <4>1, <3>5 DEF Acquired, SetUpTo
    <3> HIDE DEF r6
    <3>7. /\ r6 \in QueueType /\ r6.valid \in StageNames /\ r6.valid = Stages[Number(r6)]
          /\ r6.held = HeldUpTo(r6.valid) /\ r6.leaked = {} /\ Number(r6) \in 19..25
          /\ r6.status = "ok" => Number(r6) = 25
      BY <3>6, KeptIsHeld DEF Kept, SetUpTo
    <3>8. r6.valid = "serializeReadInit" <=> Number(r6) = 25
      BY <3>7, StageNumbers, StagesAreDistinct
    <3>9. CASE Number(r6) = 25
      <4>1. HeldUpTo("serializeReadInit") = HeldUpTo("valid")
        <5>1. HeldUpTo("serializeReadInit") = UpTo(25)
          BY UpToIs, StageNumbers
        <5>2. UpTo(25) = StageNames \ {"clean"}
          BY StagesAreDistinct, StageNumbers DEF UpTo, StageNames
        <5> QED BY <5>1, <5>2 DEF HeldUpTo
      <4>2. /\ r \in QueueType /\ r.valid = "valid" /\ r.held = r6.held /\ r.leaked = {}
            /\ r.aborted = r6.aborted
        BY <3>0, <3>7, <3>8, <3>9 DEF QueueType
      <4>3. (r.aborted <=> p.aborted) /\ Rests(r)
        BY <3>6, <3>7, <3>8, <3>9, <4>1, <4>2, StageFacts DEF Rests, QueueType, SetUpTo
      <4> QED BY <4>2, <4>3 DEF CanBeSetUp, r
    <3>10. CASE Number(r6) \in 19..24
      <4>1. r = r6
        BY <3>0, <3>8, <3>10
      <4> QED BY <3>6, <3>7, <3>10, <4>1 DEF Rests, CanBeSetUp, SetUpTo, r
    <3> QED BY <3>7, <3>9, <3>10
  <2> QED BY <2>1, <2>3, <2>4
<1> QED BY <1>b, <1>c

\* A stage is released with all those after it that the function knows.
Freed(q, r, a, b) ==
    /\ Kept(r) /\ r.aborted = q.aborted /\ Number(q) \in 1..25
    /\ Number(r) = IF Number(q) \in a..b THEN a ELSE Number(q)

LEMMA ReleaseKeeps ==
    ASSUME NEW q, Kept(q), NEW a \in 1..25, NEW b \in 1..25, a < b
    PROVE  Freed(q, Release(q, Stages[b], Stages[a]), a, b)
<1> DEFINE freed == {Stages[i] : i \in (StageNumber(Stages[a]) + 1)..StageNumber(q.valid)}
           r == Release(q, Stages[b], Stages[a])
<1>1. /\ Number(q) \in 1..25 /\ Stages[Number(q)] = q.valid /\ StageNumber(Stages[a]) = a
      /\ StageNumber(q.valid) = Number(q) /\ Stages[a] \in StageNames
  BY StageFacts DEF Kept, Number
<1>2. q.valid \in Between(Stages[a], Stages[b]) <=> Number(q) \in a..b
  BY BetweenIs DEF Kept, Number
<1>3. q.valid = Stages[a] <=> Number(q) = a
  BY <1>1, StageFacts
<1>4. CASE Number(q) \notin a + 1..b
  <2>1. r = q
    BY <1>1, <1>2, <1>3, <1>4 DEF Release
  <2> QED BY <1>1, <1>4, <2>1 DEF Freed
<1>5. CASE Number(q) \in a + 1..b
  <2>1. r = [q EXCEPT !.valid = Stages[a], !.held = @ \ freed]
    BY <1>1, <1>2, <1>3, <1>5 DEF Release
  <2>2. freed = {Stages[i] : i \in a + 1..Number(q)}
    BY <1>1
  <2>3. q.held \ freed = UpTo(a)
    BY <1>1, <1>5, <2>2, StagesAreDistinct DEF Kept, UpTo
  <2> HIDE DEF freed, r
  <2>4. /\ r \in QueueType /\ r.valid = Stages[a] /\ r.held = UpTo(a) /\ r.leaked = {}
        /\ r.aborted = q.aborted
    BY <1>1, <2>1, <2>3 DEF Kept, QueueType
  <2>5. Number(r) = a /\ r.valid \in StageNames
    BY <1>1, <2>4 DEF Number
  <2> QED BY <1>1, <1>5, <2>4, <2>5 DEF Kept, Freed, r
<1> QED BY <1>4, <1>5

\* PQueue_clear on its way back: at most at the stage with number n.
Back(r, p, n) == /\ Kept(r) /\ r.aborted = p.aborted
                 /\ Number(r) \in (IF n = 1 THEN 1 ELSE 6)..n

\* PQueue_clear releases all stages, and stops at a queue that has none.
LEMMA ClearOutcome ==
    ASSUME NEW p, Rests(p)
    PROVE  LET r == PQueueClear(p)
           IN  /\ Rests(r)
               /\ p.valid \in {"clean", "invalid"} => r.aborted /\ r.valid = p.valid
               /\ p.valid \notin {"clean", "invalid"} =>
                     r.valid = "invalid" /\ r.held = {} /\ r.aborted = p.aborted
<1> DEFINE r0 == [p EXCEPT !.valid = IF @ = "valid" THEN "serializeReadInit" ELSE @,
                           !.status = "ok"]
           r1 == Release(r0, "serializeReadInit", "memChannelReadOpen")
           r2 == Release(r1, "serializeReadNew", "memChannelReadInit")
           r3 == Release(r2, "memChannelReadOpen", "elementMemoryAlloc")
           r4 == Release(r3, "memChannelReadInit", "getSerializeFunc")
           r5 == Release(r4, "elementMemoryAlloc", "sizeInit")
           r6 == Release(r5, "sizeInit", "miscInit")
           r7 == Release(r6, "miscInit", "serializeReadNew")
           r8 == Release(r7, "serializeReadInit", "memChannelReadOpen")
           r9 == Release(r8, "serializeReadNew", "memChannelReadInit")
           r10 == Release(r9, "memChannelReadOpen", "elementMemoryAlloc")
           r11 == Release(r10, "memChannelReadInit", "getSerializeFunc")
           r12 == Release(r11, "getSerializeFunc", "memLockInit")
           r13 == Release(r12, "memLockInit", "pushCondInit")
           r14 == Release(r13, "pushCondInit", "clean")
<1> DEFINE r == PQueueClear(p)
<1>1. /\ r0 \in QueueType /\ r0.valid = (IF p.valid = "valid" THEN "serializeReadInit" ELSE p.valid)
      /\ r0.held = p.held /\ r0.leaked = {} /\ r0.status = "ok" /\ r0.aborted = p.aborted
  <2> DEFINE v == [p EXCEPT !.valid = IF @ = "valid" THEN "serializeReadInit" ELSE @]
  <2>1. /\ v \in QueueType /\ v.held = p.held /\ v.leaked = {} /\ v.aborted = p.aborted
        /\ v.valid = (IF p.valid = "valid" THEN "serializeReadInit" ELSE p.valid)
    <3>1. "serializeReadInit" \in StageNames
      BY StageFacts, StageNumbers
    <3> QED BY <3>1 DEF Rests, QueueType
  <2>2. r0 = [v EXCEPT !.status = "ok"]
    OBVIOUS
  <2> HIDE DEF v
  <2> QED BY <2>1, <2>2 DEF QueueType
<1>a. r = IF r0.valid \in {"clean", "invalid"} THEN Abort(r0)
          ELSE [Forget(r14) EXCEPT !.valid = "invalid"]
  BY DEF PQueueClear, ClearSerialize, ClearIOChannel, ClearElementMemory, ClearSize, ClearMisc,
         ClearDynamicLoader, ClearMemLock, ClearMutex
<1> HIDE DEF r0, r
<1>b. CASE p.valid \in {"clean", "invalid"}
  <2>1. r = Abort(r0)
    BY <1>1, <1>a, <1>b
  <2>2. r \in QueueType /\ r.valid = p.valid /\ r.held = p.held /\ r.leaked = {} /\ r.aborted
    BY <1>1, <1>b, <2>1 DEF Abort, QueueType
  <2> QED BY <1>b, <2>2 DEF Rests, Number, r
<1>c. CASE p.valid \notin {"clean", "invalid"}
  <2>1. r0.valid \in StageNames /\ r0.held = HeldUpTo(r0.valid) /\ Number(r0) \in 6..25
    <3>1. CASE p.valid = "valid"
      <4>1. HeldUpTo("serializeReadInit") = HeldUpTo("valid")
        <5>1. HeldUpTo("serializeReadInit") = UpTo(25)
          BY UpToIs, StageNumbers
        <5>2. UpTo(25) = StageNames \ {"clean"}
          BY StagesAreDistinct, StageNumbers DEF UpTo, StageNames
        <5> QED BY <5>1, <5>2 DEF HeldUpTo
      <4> QED BY <1>1, <3>1, <4>1, StageFacts, StageNumbers DEF Rests, Number
    <3>2. CASE p.valid # "valid"
      <4>1. p.valid \in StageNames /\ p.valid # "clean" /\ r0.valid = p.valid
        BY <1>1, <1>c, <3>2 DEF Rests, QueueType
      <4>2. Number(p) \in 1..25 /\ p.valid = Stages[Number(p)] /\ Number(r0) = Number(p)
        BY <4>1, StageFacts DEF Number
      <4>3. Number(p) # 1
        BY <4>1, <4>2, StageNumbers
      <4> QED BY <1>1, <4>1, <4>2, <4>3 DEF Rests
    <3> QED BY <3>1, <3>2
  <2>a. Kept(r0) /\ r = [Forget(r14) EXCEPT !.valid = "invalid"]
    BY <1>1, <1>a, <1>c, <2>1, KeptIsHeld
  <2>b. Back(r0, p, 25)
    BY <1>1, <2>1, <2>a DEF Back
  <2>2. Back(r1, p, 23)
    <3>1. Freed(r0, r1, 23, 25)
      BY <2>b, ReleaseKeeps, StageNumbers DEF Back
    <3> HIDE DEF r1
    <3> QED BY <2>b, <3>1 DEF Freed, Back
  <2> HIDE DEF r1
  <2>3. Back(r2, p, 23)
    <3>1. Freed(r1, r2, 16, 18)
      BY <2>2, ReleaseKeeps, StageNumbers DEF Back
    <3> HIDE DEF r2
    <3> QED BY <2>2, <3>1 DEF Freed, Back
  <2> HIDE DEF r2
  <2>4. Back(r3, p, 21)
    <3>1. Freed(r2, r3, 21, 23)
      BY <2>3, ReleaseKeeps, StageNumbers DEF Back
    <3> HIDE DEF r3
    <3> QED BY <2>3, <3>1 DEF Freed, Back
  <2> HIDE DEF r3
  <2>5. Back(r4, p, 21)
    <3>1. Freed(r3, r4, 12, 16)
      BY <2>4, ReleaseKeeps, StageNumbers DEF Back
    <3> HIDE DEF r4
    <3> QED BY <2>4, <3>1 DEF Freed, Back
  <2> HIDE DEF r4
  <2>6. Back(r5, p, 20)
    <3>1. Freed(r4, r5, 20, 21)
      BY <2>5, ReleaseKeeps, StageNumbers DEF Back
    <3> HIDE DEF r5
    <3> QED BY <2>5, <3>1 DEF Freed, Back
  <2> HIDE DEF r5
  <2>7. Back(r6, p, 19)
    <3>1. Freed(r5, r6, 19, 20)
      BY <2>6, ReleaseKeeps, StageNumbers DEF Back
    <3> HIDE DEF r6
    <3> QED BY <2>6, <3>1 DEF Freed, Back
  <2> HIDE DEF r6
  <2>8. Back(r7, p, 18)
    <3>1. Freed(r6, r7, 18, 19)
      BY <2>7, ReleaseKeeps, StageNumbers DEF Back
    <3> HIDE DEF r7
    <3> QED BY <2>7, <3>1 DEF Freed, Back
  <2> HIDE DEF r7
  <2>9. Back(r8, p, 18)
    <3>1. Freed(r7, r8, 23, 25)
      BY <2>8, ReleaseKeeps, StageNumbers DEF Back
    <3> HIDE DEF r8
    <3> QED BY <2>8, <3>1 DEF Freed, Back
  <2> HIDE DEF r8
  <2>10. Back(r9, p, 16)
    <3>1. Freed(r8, r9, 16, 18)
      BY <2>9, ReleaseKeeps, StageNumbers DEF Back
    <3> HIDE DEF r9
    <3> QED BY <2>9, <3>1 DEF Freed, Back
  <2> HIDE DEF r9
  <2>11. Back(r10, p, 16)
    <3>1. Freed(r9, r10, 21, 23)
      BY <2>10, ReleaseKeeps, StageNumbers DEF Back
    <3> HIDE DEF r10
    <3> QED BY <2>10, <3>1 DEF Freed, Back
  <2> HIDE DEF r10
  <2>12. Back(r11, p, 12)
    <3>1. Freed(r10, r11, 12, 16)
      BY <2>11, ReleaseKeeps, StageNumbers DEF Back
    <3> HIDE DEF r11
    <3> QED BY <2>11, <3>1 DEF Freed, Back
  <2> HIDE DEF r11
  <2>13. Back(r12, p, 9)
    <3>1. Freed(r11, r12, 9, 12)
      BY <2>12, ReleaseKeeps, StageNumbers DEF Back
    <3> HIDE DEF r12
    <3> QED BY <2>12, <3>1 DEF Freed, Back
  <2> HIDE DEF r12
  <2>14. Back(r13, p, 6)
    <3>1. Freed(r12, r13, 6, 9)
      BY <2>13, ReleaseKeeps, StageNumbers DEF Back
    <3> HIDE DEF r13
    <3> QED BY <2>13, <3>1 DEF Freed, Back
  <2> HIDE DEF r13
  <2>15. Back(r14, p, 1)
    <3>1. Freed(r13, r14, 1, 6)
      BY <2>14, ReleaseKeeps, StageNumbers DEF Back
    <3> HIDE DEF r14
    <3> QED BY <2>14, <3>1 DEF Freed, Back
  <2> HIDE DEF r14
  <2> DEFINE g == Forget(r14)
  <2>16. r14 \in QueueType /\ r14.held = {} /\ r14.leaked = {} /\ r14.aborted = p.aborted
    BY <2>15 DEF Back, Kept, UpTo
  <2>17. g \in QueueType /\ g.held = {} /\ g.leaked = {} /\ g.aborted = p.aborted
    BY <2>16 DEF Forget, QueueType
  <2>18. r = [g EXCEPT !.valid = "invalid"]
    BY <2>a
  <2> HIDE DEF g
  <2>19. /\ r \in QueueType /\ r.valid = "invalid" /\ r.held = {} /\ r.leaked = {}
         /\ r.aborted = p.aborted
    BY <2>17, <2>18 DEF QueueType
  <2> QED BY <1>c, <2>19, StageFacts DEF Rests, HeldUpTo, r
<1> QED BY <1>b, <1>c

-----------------------------------------------------------------------------
(* The queue keeps its resources.                                            *)

LifeInv == Rests(life) /\ AbortsOnlyIn

AnyFails == {{}} \cup {{s} : s \in Fallible}

LEMMA FailsAtMostOne == \A fails \in AnyFails : AtMostOne(fails)
BY DEF AnyFails, AtMostOne

LEMMA LifeStart == Init => LifeInv
BY StageFacts DEF Init, LifeInv, Rests, NewQueue, QueueType, HeldUpTo, AbortsOnlyIn

LEMMA LifeAdvances == LifeInv /\ [Next]_vars => LifeInv'
<1> SUFFICES ASSUME LifeInv, [Next]_vars PROVE LifeInv'
  OBVIOUS
<1>0. /\ Rests(life) /\ life.valid \in StageNames \cup {"valid", "invalid"}
      /\ \A a, b \in 1..25 : life.valid \in StageNames =>
            (life.valid \in Between(Stages[a], Stages[b]) <=> Number(life) \in a..b)
      /\ life.valid \in StageNames => Number(life) \in 1..25 /\ life.valid = Stages[Number(life)]
  BY BetweenIs, KeptIsHeld DEF LifeInv, Rests, QueueType, Number
<1>1. ASSUME NEW fails \in AnyFails, PQueue_init(fails) PROVE LifeInv'
  <2>1. ~life.aborted /\ life.valid # "valid" /\ life' = PQueueInit(life, fails)
    BY <1>1 DEF PQueue_init
  <2>2. life.valid # "invalid" => Number(life) \in 1..18
    BY <1>0, <1>1, <2>1, StageNumbers DEF PQueue_init
  <2>3. Rests(life') /\ ~life'.aborted
    BY <1>0, <2>1, <2>2, FailsAtMostOne, InitOutcome
  <2> QED BY <2>3 DEF LifeInv, AbortsOnlyIn, Rests, Number
<1>2. ASSUME NEW fails \in AnyFails, PQueue_setupElement(fails) PROVE LifeInv'
  <2>1. /\ ~life.aborted /\ life' = PQueueSetupElement(life, fails)
        /\ life.valid \in Between("miscInit", "serializeReadInit")
    BY <1>2 DEF PQueue_setupElement
  <2>2. life.valid \in StageNames
    BY <2>1, StageFacts, StageNumbers DEF Between
  <2>3. CanBeSetUp(life)
    BY <1>0, <2>1, <2>2, StageNumbers DEF CanBeSetUp, Rests
  <2>4. Rests(life') /\ (life'.aborted => life'.valid = "serializeWriteInit")
    BY <1>0, <2>1, <2>3, FailsAtMostOne, SetupOutcome
  <2> QED BY <2>4 DEF LifeInv, AbortsOnlyIn, Rests, Number
<1>3. CASE PQueue_clear
  <2>1. ~life.aborted /\ life.valid # "invalid" /\ life' = PQueueClear(life)
    BY <1>3 DEF PQueue_clear
  <2>2. Rests(life') /\ (life'.aborted => life'.valid = "clean")
    BY <1>0, <2>1, ClearOutcome
  <2> QED BY <2>2 DEF LifeInv, AbortsOnlyIn, Rests, Number
<1>4. ASSUME UNCHANGED life PROVE LifeInv'
  BY <1>4 DEF LifeInv, AbortsOnlyIn, Rests, Number
<1>5. ASSUME NEW t \in Producers, PushLock(t) \/ Producer(t) PROVE UNCHANGED life
  BY <1>5 DEF PushLock, Producer, PushCheck, LockSlot, StoreData, StoreDataFails, CountPush, MoveTail
<1>6. ASSUME NEW t \in Consumers, PopLock(t) \/ Consumer(t) \/ WakesUp(t) PROVE UNCHANGED life
  BY <1>6 DEF PopLock, Consumer, WakesUp, PopCheck, LockSlot, RetrieveData, RetrieveDataFails,
              CountPop, MoveHead
<1>7. CASE UNCHANGED vars
  BY <1>4, <1>7 DEF vars
<1> QED BY <1>1, <1>2, <1>3, <1>4, <1>5, <1>6, <1>7 DEF Next, AnyFails

\* Whatever call fails, at whatever stage, and is tried again: every stage that
\* was passed is held once, clearing gives all of it back, and the program stops
\* only where the first lock or the second serializer was missing.
THEOREM QueueKeepsItsResources == Spec => [](TypeOK /\ HoldsWhatItPassed /\ AbortsOnlyIn)
<1>1. RingInv /\ LifeInv => TypeOK /\ HoldsWhatItPassed /\ AbortsOnlyIn
  BY DEF RingInv, RingTypeOK, TypeOK, LifeInv, Rests, HoldsWhatItPassed
<1> QED BY <1>1, RingStart, RingStep, LifeStart, LifeAdvances, PTL DEF Spec

-----------------------------------------------------------------------------
(* The array of queues.                                                      *)

\* An array between two calls has its queues or not; those of an array that has
\* its mutex can be set up, and those of an array in use have been.
ArrayInv ==
    /\ array = [valid |-> array.valid, queues |-> array.queues, status |-> array.status,
                lost |-> array.lost, aborted |-> array.aborted]
    /\ array.valid \in {-1, 0, 1, 4, 5} /\ array.lost \in Nat
    /\ array.queues = [i \in Indices |-> array.queues[i]]
    /\ \A i \in Indices : Rests(array.queues[i])
    /\ array.valid = 4 => \A i \in Indices : CanBeSetUp(array.queues[i])
    /\ array.valid = 5 => \A i \in Indices : array.queues[i].valid = "valid"

LEMMA CappedIs ==
    /\ \A n \in Nat : Capped(n) \in Nat /\ Capped(n) <= n
    /\ \A S \in SUBSET Indices : Cardinality(S) \in Nat
    /\ Cardinality({}) = 0
<1>1. \A n \in Nat : Capped(n) \in Nat /\ Capped(n) <= n
  BY PQueueArrayAssumption DEF Capped
<1>2. IsFiniteSet(Indices)
  BY PQueueArrayAssumption, FS_Interval DEF Indices
<1> QED BY <1>1, <1>2, FS_Subset, FS_CardinalityType, FS_EmptySet

LEMMA NewQueuesRest == /\ Rests(NullQueue) /\ NullQueue.held = {}
                       /\ Rests(NewQueue) /\ NewQueue.valid = "invalid"
<1>1. /\ NewQueue \in QueueType /\ NewQueue.valid = "invalid" /\ NewQueue.held = {}
      /\ NewQueue.leaked = {}
  BY DEF NewQueue, QueueType
<1>2. "clean" \in StageNames /\ StageNumber("clean") = 1 /\ HeldUpTo("clean") = {}
  BY StageFacts, StageNumbers, UpToIs DEF UpTo
<1>3. /\ NullQueue \in QueueType /\ NullQueue.valid = "clean" /\ NullQueue.held = {}
      /\ NullQueue.leaked = {}
  BY <1>1, <1>2 DEF NullQueue, QueueType
<1> QED BY <1>1, <1>2, <1>3, StageFacts DEF Rests, HeldUpTo, Number

LEMMA ArrayStart == ArrayInit => ArrayInv
BY NewQueuesRest DEF ArrayInit, ArrayInv

\* PQueueArray_initQueues with PQueueArray_initMutex, for an array at stage 1.
LEMMA QueuesAreMade ==
    ASSUME NEW a, a = [valid |-> 1, queues |-> a.queues, status |-> "ok",
                       lost |-> a.lost, aborted |-> a.aborted],
           a.lost \in Nat, a.queues = [i \in Indices |-> a.queues[i]],
           \A i \in Indices : Rests(a.queues[i]),
           NEW k \in Indices, NEW fails \in AnyFails
    PROVE  LET r == InitArrayMutex(InitQueues(a, k, fails))
           IN  /\ r = [valid |-> r.valid, queues |-> r.queues, status |-> r.status,
                       lost |-> r.lost, aborted |-> r.aborted]
               /\ r.valid \in {1, 4} /\ r.lost \in Nat
               /\ r.queues = [i \in Indices |-> r.queues[i]]
               /\ \A i \in Indices : Rests(r.queues[i])
               /\ r.valid = 4 => \A i \in Indices : CanBeSetUp(r.queues[i])
               /\ (\A i \in Indices : a.queues[i].held = {}) => r.lost <= a.lost
<1> DEFINE qs == CreatedQueues(a, k, fails)
           ok == \A i \in Indices : qs[i].status = "ok" /\ qs[i].valid = "miscInit"
           gone == {i \in Indices : i <= k /\ a.queues[i].held # {}}
           lost == Capped(a.lost + Cardinality(gone))
           b == InitQueues(a, k, fails)
           r == InitArrayMutex(b)
<1>1. /\ qs = [i \in Indices |-> qs[i]]
      /\ \A i \in Indices : Rests(qs[i])
  <2>1. Rests(PQueueInit(NewQueue, {})) /\ Rests(PQueueInit(NewQueue, fails))
    <3>1. AtMostOne({}) /\ AtMostOne(fails)
      BY FailsAtMostOne DEF AtMostOne
    <3> QED BY <3>1, NewQueuesRest, InitOutcome
  <2> QED BY <2>1 DEF CreatedQueues
<1>2. ok => \A i \in Indices : CanBeSetUp(qs[i])
  <2>1. "miscInit" \in StageNames /\ StageNumber("miscInit") = 19
    BY StageFacts, StageNumbers
  <2> QED BY <2>1 DEF CanBeSetUp, Number
<1>3. lost \in Nat /\ ((\A i \in Indices : a.queues[i].held = {}) => lost <= a.lost)
  <2>1. gone \in SUBSET Indices
    OBVIOUS
  <2>2. Cardinality(gone) \in Nat /\ (gone = {} => Cardinality(gone) = 0)
    BY <2>1, CappedIs
  <2>3. (\A i \in Indices : a.queues[i].held = {}) => gone = {}
    OBVIOUS
  <2> HIDE DEF gone
  <2> QED BY <2>2, <2>3, CappedIs
<1>4. b = [valid |-> IF ok THEN 2 ELSE 1, queues |-> qs, status |-> IF ok THEN "ok" ELSE "failed",
           lost |-> lost, aborted |-> a.aborted]
  <2> HIDE DEF qs
  <2>1. b = [a EXCEPT !.queues = qs, !.valid = IF ok THEN 2 ELSE 1,
                      !.status = IF ok THEN "ok" ELSE "failed", !.lost = lost]
    BY DEF InitQueues, qs
  <2> HIDE DEF ok, lost, b
  <2> QED BY <2>1
<1> HIDE DEF qs, ok, lost, b
<1>5. r = [valid |-> IF ok THEN 4 ELSE 1, queues |-> qs, status |-> IF ok THEN "ok" ELSE "failed",
           lost |-> lost, aborted |-> a.aborted]
  BY <1>4 DEF InitArrayMutex
<1> HIDE DEF r
<1>6. /\ r.valid = (IF ok THEN 4 ELSE 1) /\ r.queues = qs /\ r.lost = lost
      /\ r.status = (IF ok THEN "ok" ELSE "failed") /\ r.aborted = a.aborted
  BY <1>5
<1>7. r = [valid |-> r.valid, queues |-> r.queues, status |-> r.status,
           lost |-> r.lost, aborted |-> r.aborted]
  BY <1>5
<1> QED BY <1>1, <1>2, <1>3, <1>6, <1>7 DEF r, b

LEMMA ArrayInitStep ==
    ASSUME ArrayInv, NEW k \in Indices, NEW fails \in AnyFails, NEW noMemory \in BOOLEAN,
           PQueueArray_init(k, fails, noMemory)
    PROVE  ArrayInv' /\ (array'.lost > array.lost => array.valid = 1)
<1> DEFINE a == [array EXCEPT !.valid = IF @ = Invalid THEN 0 ELSE @, !.status = "ok"]
           b == IF a.valid # 0 THEN a
                ELSE [a EXCEPT !.queues = [i \in Indices |-> NullQueue],
                               !.valid = IF noMemory THEN 0 ELSE 1,
                               !.status = IF noMemory THEN "failed" ELSE "ok"]
           v == IF array.valid = -1 THEN 0 ELSE array.valid
<1>1. a = [valid |-> v, queues |-> array.queues, status |-> "ok",
           lost |-> array.lost, aborted |-> array.aborted]
  <2> DEFINE c == [array EXCEPT !.valid = IF @ = Invalid THEN 0 ELSE @]
  <2>1. c = [valid |-> v, queues |-> array.queues, status |-> array.status,
             lost |-> array.lost, aborted |-> array.aborted]
    BY DEF ArrayInv, Invalid
  <2>2. a = [c EXCEPT !.status = "ok"]
    OBVIOUS
  <2> HIDE DEF c, v
  <2> QED BY <2>1, <2>2
<1>2. v \in {0, 1, 4, 5}
  BY DEF ArrayInv
<1>3. array' = IF a.valid = Valid THEN [a EXCEPT !.status = "alreadySetup"]
               ELSE IF a.valid \notin 0..2 THEN [a EXCEPT !.aborted = TRUE]
               ELSE IF b.status = "failed" THEN b
               ELSE InitArrayMutex(InitQueues(b, k, fails))
  BY DEF PQueueArray_init
<1> HIDE DEF a
<1>4. CASE v \in {4, 5}
  <2>1. array' = [valid |-> v, queues |-> array.queues, status |-> array'.status,
                  lost |-> array.lost, aborted |-> array'.aborted]
    <3>1. a.valid = v
      BY <1>1
    <3>2. CASE v = 5
      <4>1. array' = [a EXCEPT !.status = "alreadySetup"]
        BY <1>3, <3>1, <3>2 DEF Valid
      <4> HIDE DEF v
      <4> QED BY <1>1, <4>1
    <3>3. CASE v = 4
      <4>1. array' = [a EXCEPT !.aborted = TRUE]
        BY <1>3, <3>1, <3>3 DEF Valid
      <4> HIDE DEF v
      <4> QED BY <1>1, <4>1
    <3> QED BY <1>4, <3>2, <3>3
  <2>2. /\ array'.valid = array.valid /\ array'.queues = array.queues
        /\ array'.lost = array.lost
    BY <1>2, <1>4, <2>1
  <2> QED BY <2>1, <2>2, <1>4 DEF ArrayInv
<1>5. CASE v = 0
  <2> DEFINE none == [i \in Indices |-> NullQueue]
  <2>1. b = [valid |-> IF noMemory THEN 0 ELSE 1, queues |-> none,
             status |-> IF noMemory THEN "failed" ELSE "ok",
             lost |-> array.lost, aborted |-> array.aborted]
    BY <1>1, <1>5
  <2>2. /\ array.lost \in Nat /\ none = [i \in Indices |-> none[i]]
        /\ \A i \in Indices : Rests(none[i]) /\ none[i].held = {}
    BY NewQueuesRest DEF ArrayInv
  <2> HIDE DEF b, none
  <2>3. CASE noMemory
    <3>1. array' = b
      BY <1>1, <1>3, <1>5, <2>1, <2>3 DEF Valid
    <3> QED BY <2>1, <2>2, <2>3, <3>1 DEF ArrayInv
  <2>4. CASE ~noMemory
    <3>1. array' = InitArrayMutex(InitQueues(b, k, fails))
      BY <1>1, <1>3, <1>5, <2>1, <2>4 DEF Valid
    <3>2. b = [valid |-> 1, queues |-> none, status |-> "ok",
               lost |-> array.lost, aborted |-> array.aborted]
      BY <2>1, <2>4
    <3>3. /\ b.queues = none /\ b.lost = array.lost /\ b.aborted = array.aborted
          /\ b = [valid |-> 1, queues |-> b.queues, status |-> "ok",
                  lost |-> b.lost, aborted |-> b.aborted]
      BY <3>2
    <3> QED BY <2>2, <3>1, <3>3, QueuesAreMade DEF ArrayInv
  <2> QED BY <2>3, <2>4
<1>6. CASE v = 1
  <2>1. /\ b = a /\ array' = InitArrayMutex(InitQueues(b, k, fails))
    BY <1>1, <1>3, <1>6 DEF Valid
  <2>2. /\ b.queues = array.queues /\ b.lost = array.lost /\ array.valid = 1
        /\ b = [valid |-> 1, queues |-> b.queues, status |-> "ok",
                lost |-> b.lost, aborted |-> b.aborted]
    BY <1>1, <1>6, <2>1
  <2> HIDE DEF b
  <2> QED BY <2>1, <2>2, QueuesAreMade DEF ArrayInv
<1> QED BY <1>2, <1>4, <1>5, <1>6

LEMMA ArraySetupStep ==
    ASSUME ArrayInv, NEW k \in Indices, NEW fails \in AnyFails, PQueueArray_setupElement(k, fails)
    PROVE  ArrayInv' /\ (array'.lost > array.lost => array.valid = 1)
<1> DEFINE set(i) == PQueueSetupElement(array.queues[i], IF i = k THEN fails ELSE {})
           stop == {i \in Indices : FailedSetup(set(i))}
           end == IF stop = {} THEN ArraySize - 1 ELSE CHOOSE i \in stop : \A j \in stop : i <= j
           qs == [i \in Indices |-> IF i <= end THEN set(i) ELSE array.queues[i]]
<1>1. CASE array.valid = 5
  BY <1>1 DEF PQueueArray_setupElement, Valid, ArrayInv
<1>2. CASE array.valid # 5
  <2>1. array.valid = 4
    BY <1>2 DEF PQueueArray_setupElement, Valid, ArrayInv
  <2>2. ASSUME NEW i \in Indices
        PROVE  /\ Rests(set(i)) /\ CanBeSetUp(set(i))
               /\ ~FailedSetup(set(i)) => set(i).valid = "valid"
    <3>1. AtMostOne(IF i = k THEN fails ELSE {})
      BY FailsAtMostOne DEF AtMostOne
    <3>2. Rests(array.queues[i]) /\ CanBeSetUp(array.queues[i])
      BY <2>1 DEF ArrayInv
    <3> QED BY <3>1, <3>2, SetupOutcome DEF FailedSetup
  <2> HIDE DEF set
  <2>3. /\ \A i \in Indices : Rests(qs[i]) /\ CanBeSetUp(qs[i])
        /\ stop = {} => \A i \in Indices : qs[i].valid = "valid"
    <3>1. \A i \in Indices : qs[i] = set(i) \/ qs[i] = array.queues[i]
      OBVIOUS
    <3>2. stop = {} => \A i \in Indices : i <= end /\ ~FailedSetup(set(i))
      BY PQueueArrayAssumption DEF Indices
    <3>3. \A i \in Indices : Rests(array.queues[i]) /\ CanBeSetUp(array.queues[i])
      BY <2>1 DEF ArrayInv
    <3> QED BY <2>2, <3>1, <3>2, <3>3
  <2>4. array' = [array EXCEPT !.queues = qs, !.status = set(end).status,
                               !.valid = IF stop = {} THEN Valid ELSE 4,
                               !.aborted = set(end).aborted]
    BY <1>2, <2>1 DEF PQueueArray_setupElement, Valid, set
  <2>5. qs = [i \in Indices |-> qs[i]]
    OBVIOUS
  <2> HIDE DEF stop, end, qs
  <2>6. array' = [valid |-> IF stop = {} THEN 5 ELSE 4, queues |-> qs, status |-> set(end).status,
                  lost |-> array.lost, aborted |-> set(end).aborted]
    BY <2>4 DEF ArrayInv, Valid
  <2>7. /\ array'.valid = (IF stop = {} THEN 5 ELSE 4) /\ array'.queues = qs
        /\ array'.status = set(end).status /\ array'.aborted = set(end).aborted
        /\ array'.lost = array.lost
    BY <2>6
  <2>8. array' = [valid |-> array'.valid, queues |-> array'.queues, status |-> array'.status,
                  lost |-> array'.lost, aborted |-> array'.aborted]
    BY <2>6, <2>7
  <2> QED BY <2>3, <2>5, <2>7, <2>8 DEF ArrayInv
<1> QED BY <1>1, <1>2

LEMMA ArrayClearStep ==
    ASSUME ArrayInv, PQueueArray_clear
    PROVE  ArrayInv' /\ (array'.lost > array.lost => array.valid = 1)
<1> DEFINE emptiedQueues == [i \in Indices |-> PQueueClear(array.queues[i])]
           qs == IF array.valid \in {2, 3, 4, Valid} THEN emptiedQueues ELSE array.queues
           gone == {i \in Indices : qs[i].held # {} \/ qs[i].leaked # {}}
           none == [i \in Indices |-> NullQueue]
           lost == Capped(array.lost + Cardinality(gone))
           stops == \E i \in Indices : qs[i].aborted
<1>1. CASE array.valid = 0
  <2>1. array' = [array EXCEPT !.aborted = TRUE]
    BY <1>1 DEF PQueueArray_clear
  <2>2. /\ array' = [valid |-> array.valid, queues |-> array.queues, status |-> array.status,
                      lost |-> array.lost, aborted |-> TRUE]
        /\ array.valid = 0
    BY <1>1, <2>1 DEF ArrayInv
  <2>3. /\ array'.valid = array.valid /\ array'.queues = array.queues
        /\ array'.status = array.status /\ array'.lost = array.lost /\ array'.aborted = TRUE
    BY <2>2
  <2> QED BY <2>2, <2>3 DEF ArrayInv
<1>2. CASE array.valid # 0
  <2>1. array' = [array EXCEPT !.valid = Invalid, !.queues = none, !.lost = lost,
                               !.aborted = stops, !.status = "ok"]
    BY <1>2 DEF PQueueArray_clear
  <2>2. gone \in SUBSET Indices /\ none = [i \in Indices |-> none[i]]
    OBVIOUS
  <2>3. \A i \in Indices : Rests(none[i])
    BY NewQueuesRest
  <2>4. array.valid \in {4, 5} => gone = {}
    <3> SUFFICES ASSUME array.valid \in {4, 5}, NEW i \in Indices
                 PROVE  qs[i].held = {} /\ qs[i].leaked = {}
      OBVIOUS
    <3>1. qs[i] = PQueueClear(array.queues[i])
      BY DEF Valid
    <3>2. Rests(array.queues[i]) /\ array.queues[i].valid \notin {"clean", "invalid"}
      <4>1. /\ Rests(array.queues[i])
            /\ array.queues[i].valid = "valid" \/ CanBeSetUp(array.queues[i])
        BY DEF ArrayInv
      <4>2. StageNumber("clean") = 1
        BY StageFacts, StageNumbers
      <4> QED BY <4>1, <4>2, StageFacts DEF CanBeSetUp, Number
    <3> QED BY <3>1, <3>2, ClearOutcome DEF Rests
  <2> HIDE DEF gone, none
  <2>5. lost \in Nat /\ (gone = {} => lost <= array.lost)
    BY <2>2, CappedIs DEF ArrayInv
  <2> HIDE DEF lost, stops
  <2>6. array' = [valid |-> -1, queues |-> none, status |-> "ok", lost |-> lost,
                  aborted |-> stops]
    BY <2>1 DEF ArrayInv, Invalid
  <2>7. array.valid \in {1, 4, 5}
    BY <1>2 DEF ArrayInv, PQueueArray_clear, Invalid
  <2> QED BY <2>2, <2>3, <2>4, <2>5, <2>6, <2>7 DEF ArrayInv
<1> QED BY <1>1, <1>2

LEMMA ArrayCallStep ==
    ASSUME ArrayInv, NEW index, PQueueArray_call(index)
    PROVE  ArrayInv' /\ (array'.lost > array.lost => array.valid = 1)
BY DEF ArrayInv, PQueueArray_call

LEMMA ArrayStep ==
    ArrayInv /\ [ArrayNext]_array =>
        ArrayInv' /\ [array'.lost > array.lost => array.valid = 1]_array
<1> SUFFICES ASSUME ArrayInv, [ArrayNext]_array
             PROVE  ArrayInv' /\ [array'.lost > array.lost => array.valid = 1]_array
  OBVIOUS
<1>1. CASE UNCHANGED array
  BY <1>1 DEF ArrayInv
<1>2. CASE ArrayNext
  BY <1>2, ArrayInitStep, ArraySetupStep, ArrayClearStep, ArrayCallStep DEF ArrayNext, AnyFails
<1> QED BY <1>1, <1>2

\* The storage of one queue and of an array of queues is given back in full: an
\* array in use has only queues in use, and only one whose queues could not all
\* be initialised forgets what they hold.
THEOREM StorageIsKept == Spec /\ ArraySpec => ResourcesAreKept
<1>1. ArrayInv => ArrayIsComplete
  <2> SUFFICES ASSUME ArrayInv, NEW i \in Indices, array.valid = 4
               PROVE  array.queues[i].valid \notin Between("clean", "serializeReadNew")
    BY DEF ArrayInv, ArrayIsComplete, Valid
  <2>1. CanBeSetUp(array.queues[i])
    BY DEF ArrayInv
  <2>2. \A s \in StageNames :
            s \in Between("clean", "serializeReadNew") <=> StageNumber(s) \in 1..18
    BY BetweenIs, StageNumbers
  <2>3. "valid" \notin Between("clean", "serializeReadNew")
    BY StageFacts, StageNumbers DEF Between
  <2> QED BY <2>1, <2>2, <2>3 DEF CanBeSetUp, Number
<1> QED
  BY <1>1, QueueKeepsItsResources, ArrayStart, ArrayStep, PTL
  DEF ArraySpec, ResourcesAreKept, LosesQueuesOnlyAtStage1

-----------------------------------------------------------------------------
(* Descriptors: every one is kept and closed by those it belongs to, for    *)
(* any number of descriptors and of threads that serve clones.              *)

Behind == {"listener", "conn", "dgram"}
Live(o) == sock[o].fd # NoFd /\ o \notin stale

\* What is not stale has a socket behind it; who has no descriptor is not
\* stale, and no descriptor but the accepted one is at two objects.
Tables == /\ desc \in [Fds -> DescriptorKinds]
          /\ sock \in [Owners -> [fd : Fds \cup {NoFd}, type : SocketTypes]]
          /\ stale \subseteq Owners
Owned  == \A o \in Owners : Live(o) => desc[sock[o].fd] \in Behind
Marked == \A o \in Owners : sock[o].fd = NoFd => o \notin stale
Typed  == \A o \in Owners : sock[o].type = "NULL" => sock[o].fd = NoFd
Parted == \A o, p \in Owners \ {"accepted"} :
             o # p /\ sock[o].fd = sock[p].fd => sock[o].fd = NoFd
Held   == Tables /\ HeldIsItsOwn /\ NoDescriptorLost /\ Owned /\ Marked /\ Typed /\ Parted

\* The loop's object has a descriptor of its own while its callback is at it
\* (over TCP), or else somebody has it too.
Elsewhere == \E p \in Owners \ {"accepted"} : sock[p].fd = sock["accepted"].fd
Accepted ==
    /\ phase \in {"idle", "connected", "waiting", "ready", "closing"} /\ Live("accepted")
         => Elsewhere
    /\ phase = "callback" /\ sock["accepted"].fd # NoFd =>
         IF sock["accepted"].type = "TCP" THEN "accepted" \notin stale /\ ~Elsewhere
         ELSE Elsewhere \/ "accepted" \in stale

\* Whoever is about to accept has somebody to accept.
Pending == phase = "ready" => backlog > 0

SocketInv == SocketTypeOK /\ Held /\ Accepted /\ Pending

\* A step that closes no descriptor of the rest of the process.
FilesStay == \A f \in Fds : desc[f] = "file" => desc'[f] = "file"

\* The kernel has a lowest free descriptor if it has one.
LEMMA LowestIsFree ==
  ASSUME Free # {}
  PROVE  Lowest \in Free
<1>1. Free \subseteq Nat
  BY DescriptorAssumption DEF Free, Fds
<1>2. PICK f \in Free : \A g \in Free : ~(<<g, f>> \in OpToRel(<, Nat))
  <2> HIDE DEF Free
  <2> QED BY <1>1, NatLessThanWellFounded, WFMin
<1>3. \A g \in Free : f <= g
  <2>1. ASSUME NEW g \in Free, g < f PROVE FALSE
    <3>1. <<g, f>> \in OpToRel(<, Nat)
      BY <1>1, <2>1 DEF OpToRel
    <3> QED BY <1>2, <3>1
  <2> QED BY <1>1, <2>1
<1> HIDE DEF Free
<1> QED BY <1>3 DEF Lowest

\* An object that has no descriptor, or none that only it can close, takes a
\* new one.
LEMMA HoldsKeeps ==
  ASSUME Held, Free # {}, NEW o \in Owners, NEW kind \in Behind, NEW type \in {"TCP", "UDP"},
         Holds(o, Lowest, kind, type),
         sock[o].fd = NoFd \/ o \in stale \/ (o = "accepted" /\ Elsewhere)
  PROVE  /\ Held' /\ FilesStay
         /\ \A p \in Owners : p # o => sock'[p] = sock[p] /\ (p \in stale' <=> p \in stale)
         /\ sock'[o].fd = Lowest /\ sock'[o].type = type /\ o \notin stale' /\ Lowest # NoFd
         /\ \A p \in Owners : Live(p) => sock[p].fd # Lowest
<1> USE DescriptorAssumption DEF Held, Fds, NoFd
<1> DEFINE l == Lowest
<1>1. l \in Fds /\ desc[l] = "closed" /\ l # NoFd
  BY LowestIsFree DEF Free
<1> HIDE DEF l
<1>2. /\ desc' = [desc EXCEPT ![l] = kind]
      /\ sock' = [sock EXCEPT ![o] = [fd |-> l, type |-> type]]
      /\ stale' = stale \ {o}
  BY DEF Holds, l
<1>3. /\ desc'[l] = kind /\ \A f \in Fds : f # l => desc'[f] = desc[f]
      /\ sock'[o].fd = l /\ sock'[o].type = type
      /\ \A p \in Owners : p # o => sock'[p] = sock[p]
  BY <1>1, <1>2 DEF Tables
<1>4. Tables'
  <2>1. desc' \in [Fds -> DescriptorKinds]
    BY <1>1, <1>2 DEF Tables, DescriptorKinds, Behind
  <2>2. sock' \in [Owners -> [fd : Fds \cup {NoFd}, type : SocketTypes]]
    BY <1>1, <1>2 DEF Tables, SocketTypes
  <2> QED BY <1>2, <2>1, <2>2 DEF Tables
<1>5. \A p \in Owners : Live(p) => sock[p].fd # l /\ sock[p].fd \in Fds
  BY <1>1 DEF Owned, Behind, Tables, Live
<1>6. HeldIsItsOwn'
  BY <1>2, <1>3 DEF HeldIsItsOwn
<1>7. NoDescriptorLost'
  <2> SUFFICES ASSUME NEW f \in Fds, desc'[f] \in Behind
               PROVE  \E p \in Owners \ stale' : sock'[p].fd = f
    BY DEF NoDescriptorLost, Behind
  <2>1. CASE f = l
    BY <1>2, <1>3, <2>1
  <2>2. CASE f # l
    <3>1. PICK p \in Owners \ stale : sock[p].fd = f
      BY <1>3, <2>2 DEF NoDescriptorLost, Behind
    <3>2. CASE p # o
      BY <1>2, <1>3, <3>1, <3>2
    <3>3. CASE p = o
      <4>1. o = "accepted" /\ Elsewhere
        BY <3>1, <3>3
      <4>2. PICK q \in Owners \ {"accepted"} : sock[q].fd = f
        BY <3>1, <3>3, <4>1 DEF Elsewhere
      <4>3. f # NoFd
        OBVIOUS
      <4>4. q \notin stale /\ q # o
        BY <4>1, <4>2, <4>3, Zenon DEF HeldIsItsOwn
      <4> QED BY <1>2, <1>3, <4>2, <4>4
    <3> QED BY <3>2, <3>3
  <2> QED BY <2>1, <2>2
<1>8. Owned'
  BY <1>1, <1>2, <1>3, <1>5 DEF Owned, Live
<1>9. Marked' /\ Typed'
  BY <1>1, <1>2, <1>3 DEF Marked, Typed
<1>10. Parted'
  <2>1. \A p \in Owners \ {"accepted"} : sock[p].fd # NoFd => sock[p].fd # l
    BY <1>5 DEF HeldIsItsOwn, Live
  <2> QED BY <1>1, <1>3, <2>1 DEF Parted
<1>11. FilesStay
  BY <1>1, <1>3 DEF FilesStay
<1> QED BY <1>1, <1>2, <1>3, <1>4, <1>5, <1>6, <1>7, <1>8, <1>9, <1>10, <1>11 DEF l

\* An object closes the descriptor it holds: whoever holds it too has a stale
\* one then.
LEMMA DisconnectKeeps ==
  ASSUME Held, NEW o \in Owners, Disconnect({o}), o = "accepted" => ~Shared(o)
  PROVE  /\ Held' /\ FilesStay
         /\ sock'[o] = NoSocket /\ o \notin stale'
         /\ \A p \in Owners : p # o => /\ sock'[p] = sock[p]
                                       /\ p \in stale' <=> p \in stale \/ (sock[p].fd = sock[o].fd
                                                                          /\ sock[o].fd # NoFd)
<1> USE DescriptorAssumption DEF Held, Fds, NoFd
<1> DEFINE c == sock[o].fd
<1>1. /\ desc' = [f \in Fds |-> IF f = c THEN "closed" ELSE desc[f]]
      /\ sock' = [p \in Owners |-> IF p = o THEN NoSocket ELSE sock[p]]
      /\ stale' = (stale \cup {p \in Owners : sock[p].fd = c /\ c # NoFd}) \ {o}
  BY DEF Disconnect
<1>2. /\ sock'[o] = NoSocket /\ o \notin stale'
      /\ \A p \in Owners : p # o => /\ sock'[p] = sock[p]
                                    /\ p \in stale' <=> p \in stale \/ (sock[p].fd = c /\ c # NoFd)
      /\ \A f \in Fds : desc'[f] = IF f = c THEN "closed" ELSE desc[f]
  BY <1>1
<1>3. c # NoFd => o \notin stale /\ c \in Fds /\ desc[c] \in Behind
  BY DEF HeldIsItsOwn, Owned, Live, Tables, Shared
<1>4. \A p \in Owners \ {"accepted"} : p # o /\ c # NoFd => sock[p].fd # c
  BY DEF Parted, Shared
<1> HIDE DEF c
<1>5. Tables'
  <2>1. desc' \in [Fds -> DescriptorKinds]
    BY <1>1 DEF Tables, DescriptorKinds
  <2>2. sock' \in [Owners -> [fd : Fds \cup {NoFd}, type : SocketTypes]]
    BY <1>1 DEF Tables, SocketTypes, NoSocket
  <2> QED BY <1>1, <2>1, <2>2 DEF Tables
<1>6. HeldIsItsOwn'
  BY <1>2, <1>4 DEF HeldIsItsOwn, NoSocket
<1>7. NoDescriptorLost'
  <2> SUFFICES ASSUME NEW f \in Fds, desc'[f] \in Behind
               PROVE  \E p \in Owners \ stale' : sock'[p].fd = f
    BY DEF NoDescriptorLost, Behind
  <2>1. f # c /\ desc[f] \in Behind
    BY <1>2 DEF Behind
  <2>2. PICK p \in Owners \ stale : sock[p].fd = f
    BY <2>1 DEF NoDescriptorLost, Behind
  <2>3. p # o /\ p \notin stale'
    BY <1>2, <2>1, <2>2 DEF c
  <2> QED BY <1>2, <2>2, <2>3
<1>8. Owned'
  <2> SUFFICES ASSUME NEW p \in Owners, sock'[p].fd # NoFd, p \notin stale'
               PROVE  desc'[sock'[p].fd] \in Behind
    BY DEF Owned, Live
  <2>1. p # o
    BY <1>2 DEF NoSocket
  <2>2. sock'[p] = sock[p] /\ p \notin stale /\ (sock[p].fd = c => c = NoFd)
    BY <1>2, <2>1
  <2>3. sock[p].fd \in Fds /\ desc[sock[p].fd] \in Behind
    BY <2>2 DEF Owned, Live, Tables
  <2> QED BY <1>2, <2>2, <2>3
<1>9. Marked' /\ Typed'
  BY <1>2 DEF Marked, Typed, NoSocket
<1>10. Parted'
  BY <1>2 DEF Parted, NoSocket
<1>11. FilesStay
  BY <1>2, <1>3 DEF FilesStay, Behind
<1> QED BY <1>2, <1>5, <1>6, <1>7, <1>8, <1>9, <1>10, <1>11 DEF c

-----------------------------------------------------------------------------
\* What the other variables may hold.
Phases == {"idle", "connected", "waiting", "ready", "callback", "loopEnd", "serving", "closing",
           "stopped"}
LEMMA TypeFollows ==
  ASSUME Held', backlog' \in 0..MaxBacklog, use' \in {"loop", "channel"}, phase' \in Phases,
         phase' = "ready" => backlog' > 0
  PROVE  SocketTypeOK' /\ Pending'
BY DEF Held, Tables, SocketTypeOK, Phases, Pending

\* A step that leaves descriptors and objects alone.
LEMMA TablesStay ==
  ASSUME Held, UNCHANGED <<desc, sock, stale>>
  PROVE  Held' /\ FilesStay /\ (Elsewhere' <=> Elsewhere)
BY DEF Held, Tables, HeldIsItsOwn, NoDescriptorLost, Owned, Live, Marked, Typed, Parted, FilesStay,
       Elsewhere

\* Only the accepted socket and its phase matter to the last conjunct.
LEMMA AcceptedStays ==
  ASSUME SocketInv, NEW o \in Owners \ {"accepted"}, phase' = phase \/ phase' \notin {"callback"},
         phase' # phase =>
            {phase, phase'} \subseteq {"idle", "connected", "waiting", "ready", "closing"},
         sock'["accepted"] = sock["accepted"],
         "accepted" \in stale => "accepted" \in stale',
         \/ /\ sock'[o] = NoSocket
            /\ "accepted" \in stale' <=> "accepted" \in stale \/ (sock["accepted"].fd = sock[o].fd
                                                              /\ sock[o].fd # NoFd)
         \/ /\ sock'[o].fd # NoFd /\ sock[o].fd = NoFd
            /\ Live("accepted") => sock["accepted"].fd # sock'[o].fd
            /\ "accepted" \in stale' <=> "accepted" \in stale,
         \A p \in Owners \ {"accepted", o} : sock'[p] = sock[p]
  PROVE  Accepted'
BY DEF SocketInv, Held, Accepted, Elsewhere, Live, NoSocket

-----------------------------------------------------------------------------
(* Every step keeps the invariant, and closes no descriptor of the process  *)
(* but OtherCloses.                                                         *)

\* A step that moves on and leaves descriptors and objects alone.
LEMMA PhaseKeeps ==
  ASSUME SocketInv, UNCHANGED <<desc, sock, stale>>, backlog' \in 0..MaxBacklog,
         use' \in {"loop", "channel"}, phase' \in Phases, phase' = "ready" => backlog' > 0,
         \/ phase' \notin {"idle", "connected", "waiting", "ready", "closing", "callback"}
         \/ phase' = phase
         \/ {phase, phase'} \subseteq {"idle", "connected", "waiting", "ready", "closing"}
  PROVE  SocketInv' /\ FilesStay
<1>1. Held' /\ FilesStay /\ (Elsewhere' <=> Elsewhere)
  BY TablesStay DEF SocketInv
<1>2. SocketTypeOK' /\ Pending'
  BY <1>1, TypeFollows
<1>3. Accepted'
  BY <1>1 DEF SocketInv, Accepted, Live
<1> QED BY <1>1, <1>2, <1>3 DEF SocketInv

LEMMA ServerConnectKeeps ==
  ASSUME ~Careless, SocketInv, NEW u \in {"loop", "channel"}, ServerConnect(u)
  PROVE  SocketInv' /\ FilesStay
<1>1. /\ phase = "idle" /\ sock["server"].type = "NULL" /\ use' = u /\ backlog' = 0
      /\ InitTcpServer \/ InitUdpServer
  BY DEF ServerConnect
<1>2. CASE UNCHANGED <<desc, sock, stale>> /\ phase' = "idle"
  <2>1. 0 \in 0..MaxBacklog
    BY DescriptorAssumption
  <2> QED BY <1>1, <1>2, <2>1, PhaseKeeps DEF Phases
<1>3. ASSUME Free # {}, NEW kind \in Behind, NEW type \in {"TCP", "UDP"},
             Holds("server", Lowest, kind, type), phase' = "connected"
      PROVE  SocketInv' /\ FilesStay
  <2>1. "server" \in Owners \ {"accepted"} /\ "accepted" \in Owners
    BY DEF Owners
  <2>2. Held /\ sock["server"].fd = NoFd
    BY <1>1, <2>1 DEF SocketInv, Held, Typed
  <2>3. /\ Held' /\ FilesStay
        /\ \A p \in Owners : p # "server" => sock'[p] = sock[p] /\ (p \in stale' <=> p \in stale)
        /\ sock'["server"].fd = Lowest /\ Lowest # NoFd
        /\ \A p \in Owners : Live(p) => sock[p].fd # Lowest
    BY <1>3, <2>1, <2>2, HoldsKeeps
  <2>4. Accepted'
    BY <1>1, <1>3, <2>1, <2>2, <2>3, AcceptedStays
  <2>5. SocketTypeOK' /\ Pending'
    <3>1. 0 \in 0..MaxBacklog
      BY DescriptorAssumption
    <3> QED BY <1>1, <1>3, <2>3, <3>1, TypeFollows DEF Phases
  <2> QED BY <2>3, <2>4, <2>5 DEF SocketInv
<1> QED BY <1>1, <1>2, <1>3 DEF InitTcpServer, InitUdpServer, Behind

LEMMA WaitingKeeps ==
  ASSUME SocketInv, StartWaiting \/ ClientIsReady \/ LoopTimesOut
  PROVE  SocketInv' /\ FilesStay
<1>1. /\ UNCHANGED <<desc, sock, stale, backlog, use>>
      /\ phase \in {"connected", "waiting"} /\ phase' \in {"waiting", "ready", "loopEnd"}
  BY DEF StartWaiting, ClientIsReady, LoopTimesOut
<1>2. /\ backlog' \in 0..MaxBacklog /\ use' \in {"loop", "channel"}
      /\ phase' = "ready" => backlog' > 0
  BY <1>1 DEF SocketInv, SocketTypeOK, StartWaiting, ClientIsReady, LoopTimesOut
<1> QED BY <1>1, <1>2, PhaseKeeps DEF Phases

\* An object other than the loop's closes its descriptor.
LEMMA OwnerDisconnects ==
  ASSUME SocketInv, NEW o \in Owners \ {"accepted"}, Disconnect({o}), UNCHANGED <<backlog, use>>,
         \/ phase' = phase
         \/ phase \in {"connected", "waiting", "closing"} /\ phase' = "idle"
  PROVE  SocketInv' /\ FilesStay
<1>1. "accepted" \in Owners /\ Held /\ phase' \in Phases
  BY DEF Owners, SocketInv, SocketTypeOK, Phases
<1>2. /\ Held' /\ FilesStay /\ sock'[o] = NoSocket
      /\ \A p \in Owners : p # o => /\ sock'[p] = sock[p]
                                    /\ p \in stale' <=> p \in stale \/ (sock[p].fd = sock[o].fd
                                                                       /\ sock[o].fd # NoFd)
  BY <1>1, DisconnectKeeps
<1>3. Accepted'
  BY <1>1, <1>2, AcceptedStays
<1>4. SocketTypeOK' /\ Pending'
  BY <1>1, <1>2, TypeFollows DEF SocketInv, SocketTypeOK, Pending
<1> QED BY <1>2, <1>3, <1>4 DEF SocketInv

\* The loop or the channel closes the socket it has accepted.
LEMMA AcceptedDisconnects ==
  ASSUME ~Careless, SocketInv, MayClose("accepted"), Disconnect({"accepted"}),
         UNCHANGED <<backlog, use>>, phase' \in Phases \ {"ready"}
  PROVE  SocketInv' /\ FilesStay
<1>1. "accepted" \in Owners /\ Held
  BY DEF Owners, SocketInv
<1>2. Held' /\ FilesStay /\ sock'["accepted"] = NoSocket
  BY <1>1, DisconnectKeeps DEF MayClose
<1>3. Accepted'
  BY <1>2 DEF Accepted, Live, NoSocket
<1>4. SocketTypeOK' /\ Pending'
  BY <1>2, TypeFollows DEF SocketInv, SocketTypeOK
<1> QED BY <1>2, <1>3, <1>4 DEF SocketInv

LEMMA AcceptTcpKeeps ==
  ASSUME SocketInv, AcceptTcp
  PROVE  SocketInv' /\ FilesStay
<1>1. /\ "accepted" \in Owners /\ Held /\ phase = "ready" /\ UNCHANGED use
      /\ Live("accepted") => Elsewhere
  BY DEF Owners, SocketInv, AcceptTcp, Accepted
<1>2. CASE /\ Free # {} /\ Holds("accepted", Lowest, "conn", "TCP") /\ backlog' = backlog - 1
           /\ phase' = IF use = "loop" THEN "callback" ELSE "serving"
  <2>1. /\ Held' /\ FilesStay
        /\ \A p \in Owners : p # "accepted" => sock'[p] = sock[p] /\ (p \in stale' <=> p \in stale)
        /\ sock'["accepted"].fd = Lowest /\ sock'["accepted"].type = "TCP"
        /\ "accepted" \notin stale' /\ Lowest # NoFd
        /\ \A p \in Owners : Live(p) => sock[p].fd # Lowest
    BY <1>1, <1>2, HoldsKeeps DEF Behind, Live
  <2>2. \A p \in Owners \ {"accepted"} : sock'[p].fd # Lowest
    BY <1>1, <2>1 DEF Held, HeldIsItsOwn, Live
  <2>3. Accepted'
    BY <1>2, <2>1, <2>2 DEF Accepted, Elsewhere
  <2>4. backlog' \in 0..MaxBacklog
    BY <1>1, <1>2, DescriptorAssumption DEF SocketInv, SocketTypeOK, Pending
  <2> QED BY <1>1, <1>2, <2>1, <2>3, <2>4, TypeFollows DEF SocketInv, SocketTypeOK, Phases
<1>3. CASE /\ Free = {} /\ sock' = [sock EXCEPT !["accepted"].fd = NoFd]
           /\ stale' = stale \ {"accepted"} /\ UNCHANGED <<desc, backlog>>
           /\ phase' = IF use = "loop" THEN "callback" ELSE "stopped"
  <2>1. /\ sock'["accepted"].fd = NoFd /\ sock'["accepted"].type = sock["accepted"].type
        /\ \A p \in Owners : p # "accepted" => sock'[p] = sock[p]
    BY <1>1, <1>3 DEF Held, Tables
  <2>2. Tables'
    <3>1. sock' \in [Owners -> [fd : Fds \cup {NoFd}, type : SocketTypes]]
      BY <1>1, <1>3 DEF Held, Tables
    <3> QED BY <1>1, <1>3, <3>1 DEF Held, Tables
  <2>3. HeldIsItsOwn' /\ Owned' /\ Marked' /\ Typed' /\ Parted'
    BY <1>1, <1>3, <2>1 DEF Held, HeldIsItsOwn, Owned, Live, Marked, Typed, Parted
  <2>4. NoDescriptorLost'
    <3> SUFFICES ASSUME NEW f \in Fds, desc[f] \in Behind
                 PROVE  \E p \in Owners \ stale' : sock'[p].fd = f
      BY <1>3 DEF NoDescriptorLost, Behind
    <3>1. PICK p \in Owners \ stale : sock[p].fd = f
      BY <1>1 DEF Held, NoDescriptorLost, Behind
    <3>2. f # NoFd
      BY DescriptorAssumption DEF Fds, NoFd
    <3>3. CASE p # "accepted"
      BY <1>3, <2>1, <3>1, <3>3
    <3>4. CASE p = "accepted"
      <4>1. PICK q \in Owners \ {"accepted"} : sock[q].fd = f
        BY <1>1, <3>1, <3>2, <3>4 DEF Live, Elsewhere
      <4>2. q \notin stale
        BY <1>1, <3>2, <4>1 DEF Held, HeldIsItsOwn
      <4> QED BY <1>3, <2>1, <4>1, <4>2
    <3> QED BY <3>3, <3>4
  <2>5. Accepted'
    BY <2>1 DEF Accepted, Live
  <2>6. Held' /\ FilesStay
    BY <1>3, <2>2, <2>3, <2>4 DEF Held, FilesStay
  <2> QED BY <1>1, <1>3, <2>5, <2>6, TypeFollows DEF SocketInv, SocketTypeOK, Phases
<1> QED BY <1>2, <1>3 DEF AcceptTcp

\* Over UDP the loop's object takes the server's descriptor.
LEMMA AcceptUdpKeeps ==
  ASSUME SocketInv, AcceptUdp
  PROVE  SocketInv' /\ FilesStay
<1>1. /\ {"accepted", "server"} \subseteq Owners /\ Held /\ phase = "ready"
      /\ sock["server"].type = "UDP"
      /\ Live("accepted") => Elsewhere
      /\ "server" \in Owners \ {"accepted"}
  BY DEF Owners, SocketInv, AcceptUdp, Accepted
<1>2. /\ sock' = [sock EXCEPT !["accepted"] = sock["server"]]
      /\ stale' = IF "server" \in stale THEN stale \cup {"accepted"} ELSE stale \ {"accepted"}
      /\ backlog' = backlog - 1 /\ phase' = IF use = "loop" THEN "callback" ELSE "serving"
      /\ UNCHANGED <<desc, use>>
  BY DEF AcceptUdp
<1>3. /\ sock'["accepted"] = sock["server"] /\ ("accepted" \in stale' <=> "server" \in stale)
      /\ \A p \in Owners : p # "accepted" => sock'[p] = sock[p] /\ (p \in stale' <=> p \in stale)
  BY <1>1, <1>2 DEF Held, Tables
<1>4. Tables'
  <2>1. sock' \in [Owners -> [fd : Fds \cup {NoFd}, type : SocketTypes]]
    BY <1>1, <1>2 DEF Held, Tables
  <2> QED BY <1>1, <1>2, <2>1 DEF Held, Tables
<1>5. HeldIsItsOwn' /\ Owned' /\ Marked' /\ Typed' /\ Parted'
  BY <1>1, <1>2, <1>3 DEF Held, HeldIsItsOwn, Owned, Live, Marked, Typed, Parted
<1>6. NoDescriptorLost'
  <2> SUFFICES ASSUME NEW f \in Fds, desc[f] \in Behind
               PROVE  \E p \in Owners \ stale' : sock'[p].fd = f
    BY <1>2 DEF NoDescriptorLost, Behind
  <2>1. PICK p \in Owners \ stale : sock[p].fd = f
    BY <1>1 DEF Held, NoDescriptorLost, Behind
  <2>2. f # NoFd
    BY DescriptorAssumption DEF Fds, NoFd
  <2>3. CASE p # "accepted"
    BY <1>3, <2>1, <2>3
  <2>4. CASE p = "accepted"
    <3>1. PICK q \in Owners \ {"accepted"} : sock[q].fd = f
      BY <1>1, <2>1, <2>2, <2>4 DEF Live, Elsewhere
    <3>2. q \notin stale
      BY <1>1, <2>2, <3>1 DEF Held, HeldIsItsOwn
    <3> QED BY <1>3, <3>1, <3>2
  <2> QED BY <2>3, <2>4
<1>7. Accepted'
  BY <1>1, <1>2, <1>3 DEF Accepted, Elsewhere, Live
<1>8. Held' /\ FilesStay
  BY <1>2, <1>4, <1>5, <1>6 DEF Held, FilesStay
<1>9. backlog' \in 0..MaxBacklog
  BY <1>1, <1>2, DescriptorAssumption DEF SocketInv, SocketTypeOK, Pending
<1> QED BY <1>2, <1>7, <1>8, <1>9, TypeFollows DEF SocketInv, SocketTypeOK, Phases

LEMMA CallbackKeepsIt ==
  ASSUME SocketInv, CallbackQuits \/ CallbackKeeps
  PROVE  SocketInv' /\ FilesStay
<1>1. /\ UNCHANGED <<desc, sock, stale, backlog, use>> /\ phase = "callback"
      /\ \/ phase' = "loopEnd"
         \/ phase' = "waiting" /\ sock["accepted"].type = "UDP"
      /\ Held
  BY DEF CallbackQuits, CallbackKeeps, SocketInv
<1>2. Held' /\ FilesStay /\ (Elsewhere' <=> Elsewhere)
  BY <1>1, TablesStay
<1>3. Accepted'
  BY <1>1, <1>2 DEF SocketInv, Accepted, Live
<1> QED BY <1>1, <1>2, <1>3, TypeFollows DEF SocketInv, SocketTypeOK, Phases

\* A worker gets a clone of the socket: the loop's object is no longer the only
\* one that has it.
LEMMA CallbackClonesKeeps ==
  ASSUME SocketInv, NEW w \in ServerWorkers, CallbackClones(w)
  PROVE  SocketInv' /\ FilesStay
<1>1. /\ {"accepted", w} \subseteq Owners /\ w # "accepted" /\ Held /\ phase = "callback"
      /\ sock["accepted"].type = "TCP" /\ sock[w] = NoSocket
      /\ sock["accepted"].fd # NoFd => "accepted" \notin stale /\ ~Elsewhere
  BY DescriptorAssumption DEF Owners, SocketInv, CallbackClones, Accepted
<1>2. /\ sock' = [sock EXCEPT ![w] = sock["accepted"]] /\ phase' = "waiting"
      /\ UNCHANGED <<desc, stale, backlog, use>>
  BY DEF CallbackClones
<1>3. /\ sock'[w] = sock["accepted"] /\ \A p \in Owners : p # w => sock'[p] = sock[p]
      /\ w \notin stale
  BY <1>1, <1>2 DEF Held, Tables, Marked, NoSocket
<1>4. Tables'
  <2>1. sock' \in [Owners -> [fd : Fds \cup {NoFd}, type : SocketTypes]]
    BY <1>1, <1>2 DEF Held, Tables
  <2> QED BY <1>1, <1>2, <2>1 DEF Held, Tables
<1>5. HeldIsItsOwn' /\ Owned' /\ Marked' /\ Typed'
  BY <1>1, <1>2, <1>3 DEF Held, HeldIsItsOwn, Owned, Live, Marked, Typed
<1>6. Parted'
  BY <1>1, <1>2, <1>3 DEF Held, Parted, Elsewhere
<1>7. NoDescriptorLost'
  BY <1>1, <1>2, <1>3 DEF Held, NoDescriptorLost, NoSocket, Fds, NoFd
<1>8. Accepted'
  BY <1>1, <1>2, <1>3 DEF Accepted, Elsewhere
<1>9. Held' /\ FilesStay
  BY <1>2, <1>4, <1>5, <1>6, <1>7 DEF Held, FilesStay
<1> QED BY <1>2, <1>8, <1>9, TypeFollows DEF SocketInv, SocketTypeOK, Phases

LEMMA ClientConnectKeeps ==
  ASSUME ~Careless, SocketInv, ClientConnectEx
  PROVE  SocketInv' /\ FilesStay
<1>1. /\ sock["client"].type = "NULL" /\ UNCHANGED <<backlog, use, phase>>
      /\ "client" \in Owners \ {"accepted"} /\ "accepted" \in Owners /\ Held
      /\ sock["client"].fd = NoFd
  BY DEF ClientConnectEx, Owners, SocketInv, Held, Typed
<1>2. CASE UNCHANGED <<desc, sock, stale>>
  BY <1>1, <1>2, PhaseKeeps DEF SocketInv, SocketTypeOK, Phases, Pending
<1>3. ASSUME Free # {}, NEW kind \in Behind, NEW type \in {"TCP", "UDP"},
             Holds("client", Lowest, kind, type)
      PROVE  SocketInv' /\ FilesStay
  <2>1. /\ Held' /\ FilesStay
        /\ \A p \in Owners : p # "client" => sock'[p] = sock[p] /\ (p \in stale' <=> p \in stale)
        /\ sock'["client"].fd = Lowest /\ Lowest # NoFd
        /\ \A p \in Owners : Live(p) => sock[p].fd # Lowest
    BY <1>1, <1>3, HoldsKeeps
  <2>2. Accepted'
    BY <1>1, <2>1, AcceptedStays
  <2> QED BY <1>1, <2>1, <2>2, TypeFollows DEF SocketInv, SocketTypeOK, Phases, Pending
<1> QED BY <1>2, <1>3 DEF ClientConnectEx, InitTcpClient, InitUdpClient, Behind

LEMMA RemoteConnectsKeeps ==
  ASSUME SocketInv, RemoteConnects
  PROVE  SocketInv' /\ FilesStay
<1>1. UNCHANGED <<desc, sock, stale, use, phase>> /\ backlog' \in 0..MaxBacklog /\ backlog' > 0
  BY DescriptorAssumption DEF RemoteConnects, SocketInv, SocketTypeOK
<1> QED BY <1>1, PhaseKeeps DEF SocketInv, SocketTypeOK, Phases

\* The rest of the process takes a descriptor that nobody holds.
LEMMA OtherOpensKeeps ==
  ASSUME SocketInv, OtherOpens
  PROVE  SocketInv' /\ FilesStay
<1>1. Lowest \in Fds /\ desc[Lowest] = "closed"
  BY LowestIsFree DEF OtherOpens, Free
<1> HIDE DEF Lowest
<1>2. /\ Held /\ \A f \in Fds : desc'[f] = IF f = Lowest THEN "file" ELSE desc[f]
      /\ UNCHANGED <<sock, stale, backlog, use, phase>>
  BY DEF OtherOpens, SocketInv, Held, Tables
<1>3. desc' \in [Fds -> DescriptorKinds]
  BY <1>1 DEF OtherOpens, SocketInv, Held, Tables, DescriptorKinds
<1>4. Owned'
  BY <1>1, <1>2 DEF Held, Owned, Live, Behind, Tables
<1>5. NoDescriptorLost'
  BY <1>1, <1>2 DEF Held, NoDescriptorLost
<1>6. HeldIsItsOwn' /\ Marked' /\ Typed' /\ Parted' /\ Accepted'
  BY <1>2 DEF SocketInv, Held, HeldIsItsOwn, Marked, Typed, Parted, Accepted, Elsewhere, Live
<1>7. Held' /\ FilesStay
  BY <1>1, <1>2, <1>3, <1>4, <1>5, <1>6 DEF Held, Tables, FilesStay
<1> QED BY <1>2, <1>6, <1>7, TypeFollows DEF SocketInv, SocketTypeOK, Phases, Pending

\* It closes a descriptor of its own, which at most the loop's object has, and
\* has as a stale one already.
LEMMA OtherClosesKeeps ==
  ASSUME SocketInv, NEW f \in Fds, OtherCloses(f)
  PROVE  /\ SocketInv'
         /\ \A g \in Fds : desc[g] = "file" /\ desc'[g] # "file" => g = f
<1>1. /\ Held /\ desc[f] = "file" /\ \A g \in Fds : desc'[g] = IF g = f THEN "closed" ELSE desc[g]
      /\ stale' = stale \cup {o \in Owners : sock[o].fd = f}
      /\ UNCHANGED <<sock, backlog, use, phase>>
  BY DEF OtherCloses, SocketInv, Held, Tables
<1>2. desc' \in [Fds -> DescriptorKinds]
  BY DEF OtherCloses, SocketInv, Held, Tables, DescriptorKinds
<1>3. f # NoFd
  BY DescriptorAssumption DEF Fds, NoFd
<1>4. \A o \in Owners : sock[o].fd = f => o \in stale
  BY <1>1, <1>3 DEF Held, Owned, Live, Behind
<1>5. stale' = stale
  BY <1>1, <1>4
<1>6. Owned'
  BY <1>1, <1>5 DEF Held, Owned, Live, Behind, Tables
<1>7. NoDescriptorLost'
  BY <1>1, <1>5 DEF Held, NoDescriptorLost
<1>8. HeldIsItsOwn' /\ Marked' /\ Typed' /\ Parted' /\ Accepted'
  BY <1>1, <1>5 DEF SocketInv, Held, HeldIsItsOwn, Marked, Typed, Parted, Accepted, Elsewhere, Live
<1>9. Held'
  BY <1>1, <1>2, <1>5, <1>6, <1>7, <1>8 DEF Held, Tables
<1> QED BY <1>1, <1>8, <1>9, TypeFollows DEF SocketInv, SocketTypeOK, Phases, Pending

\* The beginning, and one step.
LEMMA SocketBegins == SocketInit => SocketInv
<1> SUFFICES ASSUME SocketInit PROVE SocketInv
  OBVIOUS
<1> USE DEF SocketInit
<1>1. \A o \in Owners : sock[o].fd = NoFd
  BY DEF NoSocket
<1>2. SocketTypeOK /\ Tables
  BY DescriptorAssumption DEF SocketTypeOK, Tables, DescriptorKinds, NoSocket, SocketTypes
<1>3. HeldIsItsOwn /\ NoDescriptorLost /\ Owned /\ Marked /\ Typed /\ Parted
  BY <1>1 DEF HeldIsItsOwn, NoDescriptorLost, Owned, Live, Marked, Typed, Parted
<1>4. Accepted
  BY <1>1 DEF Accepted, Live, Owners
<1> QED BY <1>2, <1>3, <1>4 DEF SocketInv, Held, Pending

LEMMA SocketGoesOn ==
  ASSUME ~Careless, SocketInv, SocketNext
  PROVE  /\ SocketInv'
         /\ \A f \in Fds : desc[f] = "file" /\ desc'[f] # "file" => OtherCloses(f)
<1>1. ASSUME SocketInv' /\ FilesStay
      PROVE  /\ SocketInv'
             /\ \A f \in Fds : desc[f] = "file" /\ desc'[f] # "file" => OtherCloses(f)
  BY <1>1 DEF FilesStay
<1>2. "server" \in Owners \ {"accepted"} /\ "client" \in Owners \ {"accepted"}
  BY DEF Owners
<1>3. ASSUME NEW u \in {"loop", "channel"}, ServerConnect(u) PROVE SocketInv' /\ FilesStay
  BY <1>3, ServerConnectKeeps
<1>4. CASE StartWaiting \/ ClientIsReady \/ LoopTimesOut
  BY <1>1, <1>4, WaitingKeeps
<1>5. CASE ChannelTimesOut \/ ServerDisconnect \/ ChannelClosesServer
  BY <1>1, <1>2, <1>5, OwnerDisconnects DEF ChannelTimesOut, ServerDisconnect, ChannelClosesServer
<1>6. CASE AcceptTcp \/ AcceptUdp
  BY <1>1, <1>6, AcceptTcpKeeps, AcceptUdpKeeps
<1>7. CASE CallbackServes \/ LoopEnds \/ ChannelCloses
  <2>1. MayClose("accepted") /\ Disconnect({"accepted"}) /\ UNCHANGED <<backlog, use>>
        /\ phase' \in Phases \ {"ready"}
    BY <1>7 DEF CallbackServes, LoopEnds, ChannelCloses, Phases
  <2> QED BY <1>1, <2>1, AcceptedDisconnects
<1>8. CASE CallbackQuits \/ CallbackKeeps
  BY <1>1, <1>8, CallbackKeepsIt
<1>9. ASSUME NEW w \in ServerWorkers, CallbackClones(w) PROVE SocketInv' /\ FilesStay
  BY <1>9, CallbackClonesKeeps
<1>10. ASSUME NEW w \in ServerWorkers, WorkerDisconnect(w) PROVE SocketInv' /\ FilesStay
  <2>1. w \in Owners \ {"accepted"}
    BY DescriptorAssumption DEF Owners
  <2> QED BY <1>10, <2>1, OwnerDisconnects DEF WorkerDisconnect
<1>11. CASE ClientConnectEx
  BY <1>1, <1>11, ClientConnectKeeps
<1>12. CASE ClientDisconnect
  BY <1>1, <1>2, <1>12, OwnerDisconnects DEF ClientDisconnect
<1>13. CASE RemoteConnects \/ OtherOpens
  BY <1>1, <1>13, RemoteConnectsKeeps, OtherOpensKeeps
<1>14. ASSUME NEW g \in Fds, OtherCloses(g)
       PROVE  /\ SocketInv'
              /\ \A f \in Fds : desc[f] = "file" /\ desc'[f] # "file" => OtherCloses(f)
  BY <1>14, OtherClosesKeeps
<1> QED BY <1>1, <1>3, <1>4, <1>5, <1>6, <1>7, <1>8, <1>9, <1>10, <1>11, <1>12, <1>13, <1>14
        DEF SocketNext

(* While no program closes a descriptor that two objects share, and no bind of *)
(* a UDP socket fails (Careless), every descriptor of a socket stays with an   *)
(* object that can close it, no object holds one that somebody else has        *)
(* closed, and none ever closes a descriptor of the rest of the process, with  *)
(* however many descriptors and however many workers that serve clones.        *)
THEOREM DescriptorsStayKept ==
  ASSUME ~Careless
  PROVE  SocketSpec => DescriptorsAreKept
<1> DEFINE Stays == \A f \in Fds : desc[f] = "file" /\ desc'[f] # "file" => OtherCloses(f)
<1>1. SocketInv /\ [SocketNext]_socketVars => SocketInv' /\ [Stays]_socketVars
  <2>1. CASE UNCHANGED socketVars
    BY <2>1 DEF socketVars, SocketInv, SocketTypeOK, Held, Tables, HeldIsItsOwn, NoDescriptorLost,
                Owned, Live, Marked, Typed, Parted, Accepted, Elsewhere, Pending
  <2>2. SocketInv /\ SocketNext => SocketInv' /\ Stays
    BY SocketGoesOn
  <2> QED BY <2>1, <2>2
<1>2. SocketInv => SocketTypeOK /\ HeldIsItsOwn /\ NoDescriptorLost
  BY DEF SocketInv, Held
<1> QED BY <1>1, <1>2, SocketBegins, PTL DEF SocketSpec, DescriptorsAreKept, OthersSurvive

-----------------------------------------------------------------------------
(* The bytes of a connection: for blocks of any sizes, any room in the      *)
(* kernel and any number of interruptions they arrive in order and without  *)
(* a gap, a short block is the last one, and a whole one is whole.          *)

Bytes == 1..MaxBytes

WriterType == [call : {"idle", "writeBlock", "failed"}, base : 0..MaxBytes,
               size : 0..MaxBytes, total : 0..MaxBytes]
ReaderType == [call : {"idle", "readBlock", "read"}, size : Nat, nleft : Nat,
               buffer : Seq(Bytes), ready : BOOLEAN,
               last : {"none", "whole", "short", "eof", "error", "disconnected", "alive"}]
TransferTypeOK ==
    /\ pipe \in Seq(Bytes) /\ Len(pipe) <= KernelRoom
    /\ link \in {"open", "closed", "reset"}
    /\ signals \in 0..MaxSignals
    /\ writer \in WriterType
    /\ reader \in ReaderType
    /\ got \in Seq(Bytes)
    /\ errno \in Errnos

\* The writer's block lies inside what its program has to send.
WriterInside ==
    /\ writer.total <= writer.size /\ writer.base + writer.size <= MaxBytes
    /\ writer.call = "idle" => writer.size = 0

\* Only readBlock keeps bytes between two turns, and it has not said yet how it
\* ends.
ReaderInside ==
    /\ Len(reader.buffer) + reader.nleft = reader.size
    /\ reader.call = "idle" => reader.size = 0
    /\ reader.call # "readBlock" => reader.buffer = <<>>
    /\ reader.call = "readBlock" => reader.last = "none"

\* A reset connection carries nothing any more.
ResetIsEmpty == link = "reset" => pipe = <<>>

StreamInv ==
    /\ TransferTypeOK /\ WriterInside /\ ReaderInside /\ ResetIsEmpty
    /\ StreamIsWhole /\ GotIsPrefix /\ ShortOnlyAtTheEnd

-----------------------------------------------------------------------------
(* Sequences of consecutive bytes.                                           *)

LEMMA NumbersIs ==
    ASSUME NEW a \in Nat, NEW n \in Nat, a + n <= MaxBytes
    PROVE  /\ Numbers(a, n) \in Seq(Bytes) /\ Len(Numbers(a, n)) = n
           /\ \A i \in 1..n : Numbers(a, n)[i] = a + i
BY StreamAssumption DEF Numbers, Bytes

LEMMA FirstNumbers ==
    ASSUME NEW n \in Nat, n <= MaxBytes
    PROVE  /\ Numbers(0, n) \in Seq(Bytes) /\ Len(Numbers(0, n)) = n
           /\ \A i \in 1..n : Numbers(0, n)[i] = i
BY StreamAssumption DEF Numbers, Bytes

LEMMA GoOn ==
    ASSUME NEW a \in Nat, NEW n \in Nat,
           NEW s \in Seq(Bytes), Len(s) = a, \A i \in 1..a : s[i] = i,
           NEW t \in Seq(Bytes), Len(t) = n, \A i \in 1..n : t[i] = a + i,
           NEW u \in Seq(Bytes), Len(u) = a + n, \A i \in 1..a + n : u[i] = i
    PROVE  s \o t = u
<1>1. s \o t \in Seq(Bytes) /\ Len(s \o t) = a + n
  BY ConcatProperties
<1>2. ASSUME NEW i \in 1..a + n PROVE (s \o t)[i] = i
  <2>1. (s \o t)[i] = IF i <= a THEN s[i] ELSE t[i - a]
    BY ConcatProperties
  <2>2. CASE i <= a
    BY <2>1, <2>2
  <2>3. CASE i > a
    <3>1. i - a \in 1..n
      BY <2>3
    <3> QED BY <2>1, <2>3, <3>1
  <2> QED BY <2>2, <2>3
<1> QED BY <1>1, <1>2, SeqEqual

LEMMA NumbersGoOn ==
    ASSUME NEW a \in Nat, NEW n \in Nat, a + n <= MaxBytes
    PROVE  Numbers(0, a) \o Numbers(a, n) = Numbers(0, a + n)
<1>1. /\ Numbers(0, a) \in Seq(Bytes) /\ Len(Numbers(0, a)) = a
      /\ \A i \in 1..a : Numbers(0, a)[i] = i
  BY FirstNumbers, StreamAssumption
<1>2. /\ Numbers(a, n) \in Seq(Bytes) /\ Len(Numbers(a, n)) = n
      /\ \A i \in 1..n : Numbers(a, n)[i] = a + i
  BY NumbersIs
<1>3. /\ Numbers(0, a + n) \in Seq(Bytes) /\ Len(Numbers(0, a + n)) = a + n
      /\ \A i \in 1..a + n : Numbers(0, a + n)[i] = i
  BY FirstNumbers
<1> QED BY <1>1, <1>2, <1>3, GoOn, ZenonT(30)

LEMMA FirstOnes ==
    ASSUME NEW s \in Seq(Bytes), NEW t \in Seq(Bytes), NEW n \in Nat,
           NEW u \in Seq(Bytes), Len(u) = n, \A i \in 1..n : u[i] = i, s \o t = u
    PROVE  Len(s) \in Nat /\ Len(s) <= n /\ \A i \in 1..Len(s) : s[i] = i
<1>1. Len(s) \in Nat /\ Len(t) \in Nat /\ Len(s) + Len(t) = n
  BY ConcatProperties, LenProperties
<1>2. ASSUME NEW i \in 1..Len(s) PROVE s[i] = i
  <2>1. i \in 1..Len(s) + Len(t) /\ i \in 1..n
    BY <1>1
  <2>2. (s \o t)[i] = s[i]
    BY <2>1, ConcatProperties
  <2> QED BY <2>1, <2>2
<1> QED BY <1>1, <1>2

LEMMA NumbersBegin ==
    ASSUME NEW s \in Seq(Bytes), NEW t \in Seq(Bytes), NEW n \in Nat, n <= MaxBytes,
           s \o t = Numbers(0, n)
    PROVE  s = Numbers(0, Len(s))
<1>1. Len(s) \in Nat /\ Len(s) <= n /\ \A i \in 1..Len(s) : s[i] = i
  BY FirstNumbers, FirstOnes
<1>2. /\ Numbers(0, Len(s)) \in Seq(Bytes) /\ Len(Numbers(0, Len(s))) = Len(s)
      /\ \A i \in 1..Len(s) : Numbers(0, Len(s))[i] = i
  BY <1>1, FirstNumbers, StreamAssumption
<1> QED BY <1>1, <1>2, SeqEqual

LEMMA Split ==
    ASSUME NEW s \in Seq(Bytes), NEW m \in 1..Len(s)
    PROVE  /\ SubSeq(s, 1, m) \in Seq(Bytes) /\ Len(SubSeq(s, 1, m)) = m
           /\ SubSeq(s, m + 1, Len(s)) \in Seq(Bytes)
           /\ Len(SubSeq(s, m + 1, Len(s))) = Len(s) - m
           /\ SubSeq(s, 1, m) \o SubSeq(s, m + 1, Len(s)) = s
<1>1. Len(s) \in Nat /\ m \in Int /\ m + 1 \in Int /\ \A i \in 1..Len(s) : s[i] \in Bytes
  BY LenProperties, ElementOfSeq
<1>2. SubSeq(s, 1, m) \in Seq(Bytes) /\ Len(SubSeq(s, 1, m)) = m
  <2>1. \A i \in 1..m : s[i] \in Bytes
    BY <1>1
  <2> QED BY <1>1, <2>1, SubSeqProperties
<1>3. SubSeq(s, m + 1, Len(s)) \in Seq(Bytes) /\ Len(SubSeq(s, m + 1, Len(s))) = Len(s) - m
  <2>1. \A i \in m + 1..Len(s) : s[i] \in Bytes
    BY <1>1
  <2> QED BY <1>1, <2>1, SubSeqProperties
<1>4. SubSeq(s, 1, m) \o SubSeq(s, m + 1, Len(s)) = SubSeq(s, 1, Len(s))
  BY <1>1, ConcatAdjacentSubSeq
<1> QED BY <1>2, <1>3, <1>4, SubSeqFull

LEMMA WriterFacts ==
    ASSUME TransferTypeOK
    PROVE  /\ MaxBytes \in Nat /\ KernelRoom \in Nat /\ MaxSignals \in Nat
           /\ writer.base \in Nat /\ writer.size \in Nat /\ writer.total \in Nat
           /\ writer.base <= MaxBytes /\ writer.size <= MaxBytes /\ writer.total <= MaxBytes
           /\ Len(pipe) \in Nat /\ signals \in Nat
BY StreamAssumption, LenProperties DEF TransferTypeOK, WriterType

LEMMA WriterIs ==
    ASSUME TransferTypeOK
    PROVE  /\ writer.call \in {"idle", "writeBlock", "failed"}
           /\ writer = [call |-> writer.call, base |-> writer.base, size |-> writer.size,
                        total |-> writer.total]
BY DEF TransferTypeOK, WriterType


LEMMA WriterTyped ==
    ASSUME NEW call \in {"idle", "writeBlock", "failed"}, NEW base \in 0..MaxBytes,
           NEW size \in 0..MaxBytes, NEW total \in 0..MaxBytes,
           writer' = [call |-> call, base |-> base, size |-> size, total |-> total]
    PROVE  /\ writer' \in WriterType /\ writer'.call = call /\ writer'.base = base
           /\ writer'.size = size /\ writer'.total = total
BY DEF WriterType

LEMMA Associative == \A s, t, u \in Seq(Bytes) : (s \o t) \o u = s \o (t \o u)
BY ConcatAssociative

LEMMA ConcatFacts ==
    /\ \A s \in Seq(Bytes) : s \o <<>> = s
    /\ \A s, t \in Seq(Bytes) : s \o t \in Seq(Bytes) /\ Len(s \o t) = Len(s) + Len(t)
    /\ <<>> \in Seq(Bytes) /\ Len(<<>>) = 0
BY ConcatEmptySeq, ConcatProperties, EmptySeq

-----------------------------------------------------------------------------
(* The writer's steps.                                                       *)

LEMMA WriteBlockStep ==
    ASSUME StreamInv, NEW n \in BlockSizes, WriteBlock(n) PROVE StreamInv'
<1>1. n \in Nat \ {0} /\ n <= MaxBytes /\ MaxBytes \in Nat
  BY StreamAssumption, WriterFacts DEF StreamInv, WriteBlock
<1>2. /\ writer' \in WriterType /\ writer'.call = "writeBlock" /\ writer'.base = writer.base
      /\ writer'.size = n /\ writer'.total = 0 /\ writer.total = 0
  <2>1. writer.total = 0
    BY WriterFacts DEF StreamInv, WriteBlock, WriterInside
  <2>2. writer' = [call |-> "writeBlock", base |-> writer.base, size |-> n, total |-> 0]
    <3> DEFINE w == [call |-> writer.call, base |-> writer.base, size |-> writer.size,
                     total |-> writer.total]
    <3>1. writer = w /\ writer' = [w EXCEPT !.call = "writeBlock", !.size = n, !.total = 0]
      BY WriterIs DEF StreamInv, WriteBlock
    <3> QED BY <3>1
  <2> QED BY <1>1, <2>1, <2>2, WriterFacts, WriterTyped DEF StreamInv
<1> QED
  BY <1>1, <1>2 DEF StreamInv, TransferTypeOK, WriteBlock, WriterInside, ReaderInside,
     ResetIsEmpty, StreamIsWhole, GotIsPrefix, ShortOnlyAtTheEnd

LEMMA SendsStep ==
    ASSUME StreamInv, NEW m \in 1..KernelRoom, Sends(m) PROVE StreamInv'
<1> DEFINE base == writer.base
           size == writer.size
           total == writer.total
           sent == base + total
           more == Numbers(sent, m)
<1>0. /\ base \in Nat /\ size \in Nat /\ total \in Nat /\ m \in Nat /\ MaxBytes \in Nat
      /\ size <= MaxBytes /\ base + size <= MaxBytes /\ Len(pipe) \in Nat /\ KernelRoom \in Nat
      /\ writer.call \in {"idle", "writeBlock", "failed"}
      /\ writer = [call |-> writer.call, base |-> base, size |-> size, total |-> total]
  BY WriterFacts, WriterIs DEF StreamInv, WriterInside
<1>a. /\ m <= size - total /\ Len(pipe) + m <= KernelRoom
      /\ pipe' = pipe \o more /\ link = "open"
      /\ writer' = IF total + m < size THEN [writer EXCEPT !.total = total + m]
                   ELSE [call |-> "idle", base |-> base + size, size |-> 0, total |-> 0]
      /\ UNCHANGED <<link, signals, reader, got, errno>>
  BY DEF Sends
<1> HIDE DEF base, size, total
<1>1. sent \in Nat /\ sent + m <= MaxBytes
  BY <1>0, <1>a
<1>2. /\ writer' \in WriterType /\ writer'.base + writer'.total = sent + m
      /\ WriterInside'
  <2>1. CASE total + m < size
    <3>1. writer' = [call |-> writer.call, base |-> base, size |-> size, total |-> total + m]
      <4>1. writer' = [writer EXCEPT !.total = total + m]
        BY <1>a, <2>1
      <4>2. writer = [call |-> writer.call, base |-> base, size |-> size, total |-> total]
        BY <1>0
      <4> DEFINE w == [call |-> writer.call, base |-> base, size |-> size, total |-> total]
      <4>3. writer' = [w EXCEPT !.total = total + m]
        BY <4>1, <4>2
      <4> QED BY <4>3
    <3>2. base \in 0..MaxBytes /\ size \in 0..MaxBytes /\ total + m \in 0..MaxBytes
      BY <1>0, <2>1
    <3>3. writer' \in WriterType /\ writer'.call = writer.call /\ writer'.base = base
          /\ writer'.size = size /\ writer'.total = total + m
      BY <1>0, <3>1, <3>2, WriterTyped
    <3>4. writer.call = "idle" => size = 0
      BY DEF StreamInv, WriterInside, size
    <3> QED BY <1>0, <2>1, <3>3, <3>4 DEF WriterInside
  <2>2. CASE ~(total + m < size)
    <3>1. writer' = [call |-> "idle", base |-> base + size, size |-> 0, total |-> 0]
      BY <1>a, <2>2
    <3>2. size = total + m /\ base + size \in 0..MaxBytes /\ 0 \in 0..MaxBytes
      <4>1. /\ base \in Nat /\ size \in Nat /\ total \in Nat /\ m \in Nat
            /\ base + size <= MaxBytes /\ m <= size - total /\ MaxBytes \in Nat
        BY <1>0, <1>a
      <4> QED BY <4>1, <2>2
    <3>3. writer' \in WriterType /\ writer'.call = "idle" /\ writer'.total = 0
          /\ writer'.base = base + size /\ writer'.size = 0
      BY <3>1, <3>2, WriterTyped
    <3> QED BY <1>0, <3>2, <3>3 DEF WriterInside
  <2> QED BY <2>1, <2>2
<1>3. more \in Seq(Bytes) /\ Len(more) = m
  BY <1>0, <1>1, NumbersIs
<1>4. pipe \in Seq(Bytes) /\ got \in Seq(Bytes) /\ reader.buffer \in Seq(Bytes)
  BY DEF StreamInv, TransferTypeOK, ReaderType
<1> HIDE DEF more, sent
<1>5. pipe' \in Seq(Bytes) /\ Len(pipe') <= KernelRoom
  BY <1>0, <1>a, <1>3, <1>4, ConcatFacts
<1>6. (got \o reader.buffer) \o pipe' = Numbers(0, sent + m)
  <2>1. (got \o reader.buffer) \o pipe = Numbers(0, sent)
    BY <1>a DEF StreamInv, StreamIsWhole, sent, base, total
  <2>2. (got \o reader.buffer) \o pipe' = ((got \o reader.buffer) \o pipe) \o more
    <3> DEFINE had == got \o reader.buffer
    <3>1. had \in Seq(Bytes)
      BY <1>4, ConcatFacts
    <3> HIDE DEF had
    <3>2. had \o (pipe \o more) = (had \o pipe) \o more
      BY <1>3, <1>4, <3>1, Associative, Zenon
    <3> QED BY <1>a, <3>2 DEF had
  <2>3. Numbers(0, sent) \o more = Numbers(0, sent + m)
    BY <1>0, <1>1, NumbersGoOn DEF more, sent
  <2> QED BY <2>1, <2>2, <2>3
<1>7. TransferTypeOK'
  BY <1>a, <1>2, <1>5 DEF StreamInv, TransferTypeOK
<1>8. StreamIsWhole'
  BY <1>a, <1>2, <1>6 DEF StreamIsWhole
<1> QED
  BY <1>a, <1>2, <1>7, <1>8 DEF StreamInv, ReaderInside, ResetIsEmpty, GotIsPrefix,
     ShortOnlyAtTheEnd

LEMMA WriterRests ==
    ASSUME StreamInv, SendInterrupted \/ SendFails \/ WriterCloses PROVE StreamInv'
<1>1. CASE SendInterrupted
  <2>1. signals' \in 0..MaxSignals
    BY <1>1, WriterFacts DEF StreamInv, SendInterrupted
  <2> QED
    BY <1>1, <2>1 DEF StreamInv, TransferTypeOK, SendInterrupted, WriterInside, ReaderInside,
       ResetIsEmpty, StreamIsWhole, GotIsPrefix, ShortOnlyAtTheEnd
<1>2. CASE SendFails
  <2>1. /\ writer' \in WriterType /\ writer'.call = "failed" /\ writer'.base = writer.base
        /\ writer'.size = writer.size /\ writer'.total = writer.total
    BY <1>2 DEF StreamInv, TransferTypeOK, WriterType, SendFails
  <2> QED
    BY <1>2, <2>1 DEF StreamInv, TransferTypeOK, SendFails, WriterInside, ReaderInside,
       ResetIsEmpty, StreamIsWhole, GotIsPrefix, ShortOnlyAtTheEnd
<1>3. CASE WriterCloses
  BY <1>3 DEF StreamInv, TransferTypeOK, WriterCloses, WriterInside, ReaderInside,
     ResetIsEmpty, StreamIsWhole, GotIsPrefix, ShortOnlyAtTheEnd
<1> QED BY <1>1, <1>2, <1>3

LEMMA ResetStep == ASSUME StreamInv, Reset PROVE StreamInv'
BY ConcatFacts, StreamAssumption DEF StreamInv, TransferTypeOK, Reset, WriterInside, ReaderInside,
   ResetIsEmpty, StreamIsWhole, GotIsPrefix, ShortOnlyAtTheEnd

-----------------------------------------------------------------------------
(* The reader's steps.                                                       *)

\* A call that ends, or has just begun, holds no bytes; how it ends is all that
\* is left of it.
LEMMA ReaderEnds ==
    ASSUME StreamInv, NEW last \in {"none", "eof", "error", "short"}, NEW call \in {"idle", "read", "readBlock"},
           NEW n \in Nat, NEW ready \in BOOLEAN, NEW buffer \in Seq(Bytes),
           call = "idle" => n = 0, call # "idle" => last = "none",
           last = "short" => link = "closed" /\ pipe = <<>>,
           reader' = [call |-> call, size |-> n, nleft |-> n, buffer |-> <<>>,
                      ready |-> ready, last |-> last],
           got' = got \o buffer, buffer = IF link = "reset" THEN <<>> ELSE reader.buffer,
           signals' \in 0..MaxSignals, errno' \in Errnos, UNCHANGED <<pipe, link, writer>>
    PROVE  StreamInv'
<1>1. pipe \in Seq(Bytes) /\ got \in Seq(Bytes) /\ reader.buffer \in Seq(Bytes)
  BY DEF StreamInv, TransferTypeOK, ReaderType
<1>2. /\ reader' \in ReaderType /\ reader'.buffer = <<>> /\ reader'.call = call
      /\ reader'.size = n /\ reader'.nleft = n /\ reader'.last = last
  BY ConcatFacts DEF ReaderType
<1>3. got' \in Seq(Bytes) /\ got' \o <<>> = got'
  BY <1>1, ConcatFacts
<1>4. TransferTypeOK' /\ WriterInside' /\ ReaderInside' /\ ResetIsEmpty' /\ ShortOnlyAtTheEnd'
  BY <1>2, <1>3, ConcatFacts
  DEF StreamInv, TransferTypeOK, WriterInside, ReaderInside, ResetIsEmpty, ShortOnlyAtTheEnd
<1>5. StreamIsWhole'
  BY <1>2, <1>3 DEF StreamInv, StreamIsWhole
<1>6. GotIsPrefix'
  <2>1. CASE link = "reset"
    BY <1>1, <2>1, ConcatFacts DEF StreamInv, GotIsPrefix
  <2>2. CASE link # "reset"
    <3> DEFINE sent == writer.base + writer.total
    <3>1. got' \o pipe = Numbers(0, sent) /\ sent \in Nat /\ sent <= MaxBytes
      <4>1. (got \o reader.buffer) \o pipe = Numbers(0, sent) /\ sent \in Nat /\ sent <= MaxBytes
        <5>1. /\ writer.base \in Nat /\ writer.size \in Nat /\ writer.total \in Nat
              /\ writer.total <= writer.size /\ writer.base + writer.size <= MaxBytes
              /\ MaxBytes \in Nat
          BY WriterFacts DEF StreamInv, WriterInside
        <5>2. (got \o reader.buffer) \o pipe = Numbers(0, sent)
          BY <2>2 DEF StreamInv, StreamIsWhole
        <5> QED BY <5>1, <5>2
      <4> QED BY <2>2, <4>1
    <3> QED BY <1>1, <1>3, <3>1, NumbersBegin DEF GotIsPrefix
  <2> QED BY <2>1, <2>2
<1> QED BY <1>4, <1>5, <1>6 DEF StreamInv

LEMMA ReaderFacts ==
    ASSUME TransferTypeOK
    PROVE  /\ reader.call \in {"idle", "readBlock", "read"}
           /\ reader.size \in Nat /\ reader.nleft \in Nat /\ reader.buffer \in Seq(Bytes)
           /\ Len(reader.buffer) \in Nat /\ Len(pipe) \in Nat /\ signals \in Nat
           /\ MaxSignals \in Nat /\ signals <= MaxSignals
BY StreamAssumption, LenProperties DEF TransferTypeOK, ReaderType

LEMMA ReaderCallsStep ==
    ASSUME StreamInv, NEW call \in {"read", "readBlock"}, NEW n \in BlockSizes,
           ReaderCalls(call, n)
    PROVE  StreamInv'
<1>1. /\ reader' = [call |-> call, size |-> n, nleft |-> n, buffer |-> <<>>,
                    ready |-> (call = "read"), last |-> "none"]
      /\ UNCHANGED <<pipe, link, signals, writer, got, errno>>
      /\ reader.call = "idle" /\ n \in Nat
  BY StreamAssumption DEF ReaderCalls
<1>2. reader.buffer = <<>>
  BY <1>1 DEF StreamInv, ReaderInside
<1>3. got \in Seq(Bytes) /\ got' = got \o <<>> /\ signals' \in 0..MaxSignals /\ errno' \in Errnos
  BY <1>1, ConcatFacts DEF StreamInv, TransferTypeOK
<1>4. <<>> = IF link = "reset" THEN <<>> ELSE reader.buffer
  BY <1>2
<1> QED BY <1>1, <1>3, <1>4, ConcatFacts, ReaderEnds

\* The steps in which only what select has said changes.
LEMMA ReadyStep ==
    ASSUME StreamInv, NEW ready \in BOOLEAN, reader' = [reader EXCEPT !.ready = ready],
           signals' \in 0..MaxSignals, errno' \in Errnos, UNCHANGED <<pipe, link, writer, got>>
    PROVE  StreamInv'
<1>1. /\ reader' \in ReaderType /\ reader'.call = reader.call /\ reader'.size = reader.size
      /\ reader'.nleft = reader.nleft /\ reader'.buffer = reader.buffer
      /\ reader'.last = reader.last
  BY DEF StreamInv, TransferTypeOK, ReaderType
<1> QED
  BY <1>1 DEF StreamInv, TransferTypeOK, WriterInside, ReaderInside, ResetIsEmpty,
     StreamIsWhole, GotIsPrefix, ShortOnlyAtTheEnd

LEMMA AvailableStep ==
    ASSUME StreamInv, Available \/ NotAvailable PROVE StreamInv'
<1>1. CASE Available
  <2>1. signals' \in 0..MaxSignals /\ errno' \in Errnos
    BY <1>1 DEF Available, StreamInv, TransferTypeOK
  <2> QED BY <1>1, <2>1, ReadyStep DEF Available
<1>2. CASE NotAvailable
  <2>1. signals' \in 0..MaxSignals /\ errno' \in Errnos
    BY <1>2, ReaderFacts DEF NotAvailable, StreamInv, TransferTypeOK, Errnos
  <2> QED
    BY <1>2, <2>1 DEF NotAvailable, StreamInv, TransferTypeOK, WriterInside, ReaderInside,
       ResetIsEmpty, StreamIsWhole, GotIsPrefix, ShortOnlyAtTheEnd
<1> QED BY <1>1, <1>2

LEMMA RecvEndStep == ASSUME StreamInv, RecvEnd PROVE StreamInv'
<1>1. /\ reader.call # "idle" /\ pipe = <<>> /\ link = "closed"
      /\ UNCHANGED <<pipe, link, signals, writer, errno>>
      /\ signals' \in 0..MaxSignals /\ errno' \in Errnos /\ 0 \in Nat
      /\ reader.buffer \in Seq(Bytes)
  BY ReaderFacts DEF RecvEnd, StreamInv, TransferTypeOK
<1>2. \E last \in {"eof", "error", "short"} : ReaderReturns(reader.buffer, last)
  BY DEF RecvEnd, StreamInv, ReaderInside
<1>3. PICK last \in {"eof", "error", "short"} :
          /\ reader' = [call |-> "idle", size |-> 0, nleft |-> 0, buffer |-> <<>>,
                        ready |-> FALSE, last |-> last]
          /\ got' = got \o reader.buffer
  BY <1>2 DEF ReaderReturns
<1> QED BY <1>1, <1>3, ReaderEnds

LEMMA RecvFailsStep == ASSUME StreamInv, RecvFails PROVE StreamInv'
<1>1. /\ link = "reset" /\ UNCHANGED <<pipe, link, signals, writer>>
      /\ signals' \in 0..MaxSignals /\ errno' \in Errnos /\ 0 \in Nat /\ <<>> \in Seq(Bytes)
  BY ConcatFacts DEF RecvFails, StreamInv, TransferTypeOK, Errnos
<1>2. PICK last \in {"eof", "error"} :
          /\ reader' = [call |-> "idle", size |-> 0, nleft |-> 0, buffer |-> <<>>,
                        ready |-> FALSE, last |-> last]
          /\ got' = got \o <<>>
  BY DEF RecvFails, ReaderReturns
<1> QED BY <1>1, <1>2, ReaderEnds

LEMMA RecvInterruptedStep == ASSUME StreamInv, RecvInterrupted PROVE StreamInv'
<1>1. /\ UNCHANGED <<pipe, link, writer>> /\ <<>> \in Seq(Bytes) /\ 0 \in Nat
      /\ signals' \in 0..MaxSignals /\ errno' \in Errnos
  BY ReaderFacts, ConcatFacts DEF RecvInterrupted, StreamInv, TransferTypeOK, Errnos
<1>2. CASE reader.call = "readBlock"
  BY <1>1, <1>2, ReadyStep DEF RecvInterrupted
<1>3. CASE reader.call # "readBlock"
  <2>1. reader.buffer = <<>>
    BY <1>3 DEF StreamInv, ReaderInside
  <2>2. <<>> = IF link = "reset" THEN <<>> ELSE reader.buffer
    BY <2>1
  <2>3. /\ reader' = [call |-> "idle", size |-> 0, nleft |-> 0, buffer |-> <<>>,
                      ready |-> FALSE, last |-> "error"]
        /\ got' = got \o <<>>
    BY <1>3 DEF RecvInterrupted, ReaderReturns
  <2> QED BY <1>1, <2>2, <2>3, ReaderEnds
<1> QED BY <1>2, <1>3

LEMMA IsDisconnectedStep == ASSUME StreamInv, IsDisconnected PROVE StreamInv'
<1>1. /\ reader.call = "idle" /\ UNCHANGED <<pipe, link, signals, writer, got>>
      /\ errno' \in Errnos
      /\ \E last \in {"disconnected", "alive"} : reader' = [reader EXCEPT !.last = last]
  BY DEF IsDisconnected, Errnos
<1>2. PICK last \in {"disconnected", "alive"} : reader' = [reader EXCEPT !.last = last]
  BY <1>1
<1>3. /\ reader' \in ReaderType /\ reader'.call = reader.call /\ reader'.size = reader.size
      /\ reader'.nleft = reader.nleft /\ reader'.buffer = reader.buffer /\ reader'.last = last
  BY <1>2 DEF StreamInv, TransferTypeOK, ReaderType
<1> QED
  BY <1>1, <1>3 DEF StreamInv, TransferTypeOK, WriterInside, ReaderInside, ResetIsEmpty,
     StreamIsWhole, GotIsPrefix, ShortOnlyAtTheEnd

LEMMA RecvStep ==
    ASSUME StreamInv, NEW m \in 1..KernelRoom, Recv(m)
    PROVE  /\ StreamInv'
           /\ reader.call = "readBlock" /\ reader'.last = "whole" =>
                 Len(got') = Len(got) + reader.size
<1> DEFINE taken == SubSeq(pipe, 1, m)
           rest == SubSeq(pipe, m + 1, Len(pipe))
           had == reader.buffer
           has == had \o taken
           partly == reader.call = "readBlock" /\ m < reader.nleft
<1>0. /\ pipe \in Seq(Bytes) /\ got \in Seq(Bytes) /\ had \in Seq(Bytes)
      /\ Len(pipe) \in Nat /\ Len(pipe) <= KernelRoom /\ Len(had) \in Nat /\ KernelRoom \in Nat
      /\ reader.nleft \in Nat /\ reader.size \in Nat /\ Len(had) + reader.nleft = reader.size
      /\ reader.call \in {"idle", "readBlock", "read"} /\ m \in Nat /\ m >= 1
  BY ReaderFacts, WriterFacts DEF StreamInv, TransferTypeOK, ReaderInside
<1>1. /\ reader.call # "idle" /\ m <= reader.nleft /\ m <= Len(pipe) /\ pipe' = rest
      /\ IF partly THEN /\ reader' = [reader EXCEPT !.nleft = @ - m, !.buffer = has, !.ready = FALSE]
                        /\ UNCHANGED got
         ELSE ReaderReturns(has, "whole")
      /\ UNCHANGED <<link, signals, writer, errno>>
  BY DEF Recv
<1>2. /\ taken \in Seq(Bytes) /\ Len(taken) = m /\ rest \in Seq(Bytes)
      /\ Len(rest) = Len(pipe) - m /\ taken \o rest = pipe
  <2>1. m \in 1..Len(pipe)
    BY <1>0, <1>1
  <2> QED BY <1>0, <2>1, Split
<1>3. link # "reset"
  <2>1. link = "reset" => Len(pipe) = 0
    BY ConcatFacts DEF StreamInv, ResetIsEmpty
  <2> QED BY <1>0, <1>1, <2>1
<1> DEFINE sent == writer.base + writer.total
<1>4. /\ (got \o had) \o pipe = Numbers(0, sent)
      /\ sent \in Nat /\ sent <= MaxBytes
  <2>1. /\ writer.base \in Nat /\ writer.size \in Nat /\ writer.total \in Nat
        /\ writer.total <= writer.size /\ writer.base + writer.size <= MaxBytes
        /\ MaxBytes \in Nat
    BY WriterFacts DEF StreamInv, WriterInside
  <2>2. (got \o had) \o pipe = Numbers(0, sent)
    BY <1>3 DEF StreamInv, StreamIsWhole
  <2> QED BY <2>1, <2>2
<1> HIDE DEF taken, rest, had, sent
<1>5. has \in Seq(Bytes) /\ Len(has) = Len(had) + m
  BY <1>0, <1>2, ConcatFacts
<1>6. (got \o has) \o rest = (got \o had) \o pipe
  <2>1. got \o (had \o taken) = (got \o had) \o taken
    BY <1>0, <1>2, Associative, ZenonT(30)
  <2> DEFINE all == got \o had
  <2>2. all \in Seq(Bytes)
    BY <1>0, ConcatFacts
  <2> HIDE DEF all
  <2>3. (all \o taken) \o rest = all \o (taken \o rest)
    BY <1>2, <2>2, Associative, Zenon
  <2> QED BY <1>2, <2>1, <2>3 DEF all
<1> HIDE DEF has
<1>7. /\ pipe' \in Seq(Bytes) /\ Len(pipe') <= KernelRoom /\ writer' = writer
      /\ WriterInside' /\ ResetIsEmpty'
  BY <1>0, <1>1, <1>2, <1>3 DEF StreamInv, WriterInside, ResetIsEmpty
<1>8. CASE partly
  <2>1. /\ reader.call = "readBlock" /\ m < reader.nleft /\ UNCHANGED got
        /\ reader' = [reader EXCEPT !.nleft = @ - m, !.buffer = has, !.ready = FALSE]
    BY <1>1, <1>8
  <2>2. reader.nleft - m \in Nat
    BY <1>0, <2>1
  <2>3. /\ reader' \in ReaderType /\ reader'.call = "readBlock" /\ reader'.size = reader.size
        /\ reader'.nleft = reader.nleft - m /\ reader'.buffer = has /\ reader'.last = reader.last
    <3>1. reader \in ReaderType
      BY DEF StreamInv, TransferTypeOK
    <3> QED BY <1>5, <2>1, <2>2, <3>1 DEF ReaderType
  <2>4. TransferTypeOK'
    BY <1>1, <1>7, <2>1, <2>3 DEF StreamInv, TransferTypeOK
  <2>5. reader.last = "none"
    BY <2>1 DEF StreamInv, ReaderInside
  <2>6. Len(has) + (reader.nleft - m) = reader.size
    BY <1>0, <1>5
  <2>7. ReaderInside' /\ ShortOnlyAtTheEnd'
    BY <2>3, <2>5, <2>6 DEF ReaderInside, ShortOnlyAtTheEnd
  <2>8. StreamIsWhole' /\ GotIsPrefix'
    BY <1>1, <1>4, <1>6, <2>1, <2>3 DEF StreamInv, StreamIsWhole, GotIsPrefix, sent
  <2> QED BY <1>7, <2>3, <2>4, <2>5, <2>7, <2>8 DEF StreamInv
<1>9. CASE ~partly
  <2>1. /\ reader' = [call |-> "idle", size |-> 0, nleft |-> 0, buffer |-> <<>>,
                      ready |-> FALSE, last |-> "whole"]
        /\ got' = got \o has
    BY <1>1, <1>9 DEF ReaderReturns
  <2>2. got' \in Seq(Bytes) /\ Len(got') = Len(got) + Len(has) /\ got' \o <<>> = got'
    BY <1>0, <1>5, <2>1, ConcatFacts
  <2>3. /\ reader' \in ReaderType /\ reader'.call = "idle" /\ reader'.size = 0
        /\ reader'.nleft = 0 /\ reader'.buffer = <<>> /\ reader'.last = "whole"
    BY <2>1, ConcatFacts DEF ReaderType
  <2>4. TransferTypeOK'
    BY <1>1, <1>7, <2>2, <2>3 DEF StreamInv, TransferTypeOK
  <2>5. ReaderInside' /\ ShortOnlyAtTheEnd'
    BY <2>3, ConcatFacts DEF ReaderInside, ShortOnlyAtTheEnd
  <2>6. got' \o rest = Numbers(0, sent)
    BY <1>4, <1>6, <2>1
  <2>7. StreamIsWhole'
    BY <1>1, <2>2, <2>3, <2>6 DEF StreamIsWhole, sent
  <2>8. GotIsPrefix'
    BY <1>2, <1>4, <2>2, <2>6, NumbersBegin DEF GotIsPrefix
  <2>9. reader.call = "readBlock" => Len(has) = reader.size
    <3> SUFFICES ASSUME reader.call = "readBlock" PROVE Len(has) = reader.size
      OBVIOUS
    <3>1. ~(m < reader.nleft)
      BY <1>9
    <3> QED BY <1>0, <1>1, <1>5, <3>1
  <2> QED BY <1>7, <2>2, <2>4, <2>5, <2>7, <2>8, <2>9 DEF StreamInv
<1> QED BY <1>8, <1>9

-----------------------------------------------------------------------------
(* The theorems.                                                             *)

LEMMA StreamStart == StreamInit => StreamInv
<1> SUFFICES ASSUME StreamInit PROVE StreamInv
  OBVIOUS
<1>1. <<>> \in Seq(Bytes) /\ Len(<<>>) = 0 /\ <<>> \o <<>> = <<>>
  BY ConcatFacts
<1>2. Numbers(0, 0) = <<>>
  BY DEF Numbers
<1>3. TransferTypeOK
  BY <1>1, StreamAssumption DEF StreamInit, TransferTypeOK, WriterType, ReaderType, Errnos
<1> QED
  BY <1>1, <1>2, <1>3, StreamAssumption
  DEF StreamInit, StreamInv, WriterInside, ReaderInside, ResetIsEmpty, StreamIsWhole,
      GotIsPrefix, ShortOnlyAtTheEnd

LEMMA StreamKeeps == ASSUME StreamInv, UNCHANGED transferVars PROVE StreamInv'
BY DEF transferVars, StreamInv, TransferTypeOK, WriterInside, ReaderInside, ResetIsEmpty,
   StreamIsWhole, GotIsPrefix, ShortOnlyAtTheEnd

LEMMA StreamStep == StreamInv /\ [StreamNext]_streamVars => StreamInv'
<1> SUFFICES ASSUME StreamInv, [StreamNext]_streamVars PROVE StreamInv'
  OBVIOUS
<1>1. CASE UNCHANGED streamVars
  BY <1>1, StreamKeeps DEF streamVars, transferVars
<1>2. CASE FlushNext
  BY <1>2, StreamKeeps DEF FlushNext, FlushStarts, FlushTurn, FlushReturns
<1>3. CASE TransferNext
  BY <1>3, WriteBlockStep, SendsStep, WriterRests, ResetStep, ReaderCallsStep, AvailableStep,
     RecvEndStep, RecvFailsStep, RecvInterruptedStep, IsDisconnectedStep, RecvStep
  DEF TransferNext, WriterStep, ReaderStep, ReadBlock, ChannelRead
<1> QED BY <1>1, <1>2, <1>3 DEF StreamNext

LEMMA FlushTyped == StreamInit /\ [][StreamNext]_streamVars => [](flush.call \in {"idle", "flush"})
<1> DEFINE FlushInv ==
               /\ flush.call \in {"idle", "flush"}
               /\ flush = [call |-> flush.call, size |-> flush.size, left |-> flush.left,
                           written |-> flush.written, nBytes |-> flush.nBytes,
                           datagrams |-> flush.datagrams]
<1>1. StreamInit => FlushInv
  BY DEF StreamInit
<1>2. FlushInv /\ [StreamNext]_streamVars => FlushInv'
  <2> SUFFICES ASSUME FlushInv, [StreamNext]_streamVars PROVE FlushInv'
    OBVIOUS
  <2>2. CASE UNCHANGED flush
    BY <2>2
  <2>3. ASSUME NEW n \in FlushSizes, FlushStarts(n) PROVE FlushInv'
    BY <2>3 DEF FlushStarts
  <2>4. ASSUME NEW possible \in BOOLEAN, FlushTurn(possible) PROVE FlushInv'
    <3>1. \E b, w, l, d : flush' = [flush EXCEPT !.nBytes = b, !.written = w, !.left = l,
                                               !.datagrams = d]
      BY <2>4 DEF FlushTurn
    <3>2. PICK b, w, l, d : flush' = [flush EXCEPT !.nBytes = b, !.written = w, !.left = l,
                                                  !.datagrams = d]
      BY <3>1
    <3>3. flush' = [call |-> flush.call, size |-> flush.size, left |-> l, written |-> w,
                    nBytes |-> b, datagrams |-> d]
      BY <3>2
    <3> QED BY <3>3
  <2>5. CASE FlushReturns
    <3>1. flush' = [call |-> "idle", size |-> flush.size, left |-> flush.left,
                    written |-> flush.written, nBytes |-> flush.nBytes,
                    datagrams |-> flush.datagrams]
      BY <2>5 DEF FlushReturns
    <3> QED BY <3>1
  <2>6. CASE TransferNext
    <3>1. UNCHANGED flush
      BY <2>6 DEF TransferNext, WriterStep, ReaderStep, WriteBlock, ReadBlock, ChannelRead,
         ReaderCalls, Sends, SendFails, SendInterrupted, WriterCloses, Reset, Available, RecvEnd,
         RecvFails, Recv, NotAvailable, RecvInterrupted, IsDisconnected
    <3> QED BY <2>2, <3>1
  <2>7. CASE UNCHANGED streamVars
    BY <2>2, <2>7 DEF streamVars
  <2> QED BY <2>3, <2>4, <2>5, <2>6, <2>7 DEF StreamNext, FlushNext
<1>3. FlushInv => flush.call \in {"idle", "flush"}
  OBVIOUS
<1> QED BY <1>1, <1>2, <1>3, PTL

\* However the kernel cuts the stream, interrupts the calls and ends it: what the
\* reader's program has is a beginning of what the writer sent, in its order and
\* without a gap, and readBlock comes back short only at the end of it.
THEOREM StreamArrivesInOrder == StreamSpec => []BytesArriveInOrder
<1>1. StreamInv /\ flush.call \in {"idle", "flush"} => BytesArriveInOrder
  <2> SUFFICES ASSUME StreamInv, flush.call \in {"idle", "flush"} PROVE BytesArriveInOrder
    OBVIOUS
  <2>1. writer.total \in 0..writer.size
    BY WriterFacts DEF StreamInv, WriterInside
  <2> QED
    BY <2>1 DEF StreamInv, BytesArriveInOrder, StreamTypeOK, TransferTypeOK, WriterType, ReaderType,
       ReaderInside, Bytes
<1> QED BY <1>1, StreamStart, StreamStep, FlushTyped, PTL DEF StreamSpec

\* A readBlock that reports all it was asked for has added just as many bytes to
\* what the program has, in however many pieces they came.
THEOREM WholeBlocksAreWhole == StreamSpec => WholeMeansAll
<1> DEFINE Step == reader.call = "readBlock" /\ reader'.last = "whole" =>
                       Len(got') = Len(got) + reader.size
<1>1. StreamInv /\ [StreamNext]_streamVars => [Step]_streamVars
  <2> SUFFICES ASSUME StreamInv, StreamNext, reader.call = "readBlock", reader'.last = "whole"
               PROVE  Len(got') = Len(got) + reader.size
    OBVIOUS
  <2>1. reader.last = "none"
    BY DEF StreamInv, ReaderInside
  <2>2. reader' # reader
    BY <2>1
  <2>3. \E m \in 1..KernelRoom : Recv(m)
    <3>1. CASE FlushNext
      BY <2>2, <3>1 DEF FlushNext, FlushStarts, FlushTurn, FlushReturns, transferVars
    <3>2. CASE WriterStep \/ SendInterrupted \/ WriterCloses \/ Reset
      BY <2>2, <3>2 DEF WriterStep, Sends, SendFails, SendInterrupted, WriterCloses, Reset
    <3>3. ASSUME NEW n \in BlockSizes, WriteBlock(n) \/ ReadBlock(n) \/ ChannelRead(n)
          PROVE  FALSE
      BY <2>2, <3>3 DEF WriteBlock, ReadBlock, ChannelRead, ReaderCalls
    <3>4. CASE IsDisconnected
      BY <3>4 DEF IsDisconnected
    <3>5. ASSUME NEW ready \in BOOLEAN, reader' = [reader EXCEPT !.ready = ready] PROVE FALSE
      <4>1. reader \in ReaderType
        BY DEF StreamInv, TransferTypeOK
      <4> QED BY <2>1, <3>5, <4>1 DEF ReaderType
    <3>6. CASE Available \/ NotAvailable \/ RecvInterrupted
      BY <2>2, <3>5, <3>6 DEF Available, NotAvailable, RecvInterrupted
    <3>7. CASE RecvEnd \/ RecvFails
      BY <3>7 DEF RecvEnd, RecvFails, ReaderReturns
    <3> QED BY <3>1, <3>2, <3>3, <3>4, <3>6, <3>7 DEF StreamNext, TransferNext, ReaderStep
  <2> QED BY <2>3, RecvStep
<1> QED BY <1>1, StreamStart, StreamStep, PTL DEF StreamSpec, WholeMeansAll

-----------------------------------------------------------------------------
(* Copies, concatenations and moves of files, for any files, any number of  *)
(* processes, any length of the buffer and a disk of any size that may      *)
(* become full.                                                             *)

\* What the processes write: the bytes of the files, and holes.

FileBytes == (UNION {Range(Contents[f]) : f \in Inodes}) \cup {"hole"}

LEMMA MaxOfTwo ==
  ASSUME NEW a \in Int, NEW b \in Int
  PROVE  Max({a, b}) = IF a >= b THEN a ELSE b
<1> DEFINE m == IF a >= b THEN a ELSE b
<1>1. m \in {a, b} /\ \A y \in {a, b} : m >= y
  OBVIOUS
<1>2. \A x \in {a, b} : (\A y \in {a, b} : x >= y) => x = m
  OBVIOUS
<1> QED BY <1>1, <1>2 DEF Max

LEMMA MinOfTwo ==
  ASSUME NEW a \in Int, NEW b \in Int
  PROVE  Min({a, b}) = IF a <= b THEN a ELSE b
<1> DEFINE m == IF a <= b THEN a ELSE b
<1>1. m \in {a, b} /\ \A y \in {a, b} : m <= y
  OBVIOUS
<1>2. \A x \in {a, b} : (\A y \in {a, b} : x <= y) => x = m
  OBVIOUS
<1> QED BY <1>1, <1>2 DEF Min

\* A beginning holds the same bytes as far as it goes.
LEMMA PrefixIs ==
  ASSUME NEW s \in Seq(FileBytes), NEW t \in Seq(FileBytes)
  PROVE  IsPrefix(s, t) <=> Len(s) <= Len(t) /\ \A i \in 1..Len(s) : s[i] = t[i]
<1>1. Len(s) \in Nat /\ Len(t) \in Nat
  BY LenProperties
<1>2. SubSeq(s, 1, Len(s)) = s
  BY SubSeqFull
<1>3. CASE Len(s) <= Len(t)
  <2> DEFINE u == SubSeq(t, 1, Len(s))
  <2>1. \A i \in 1..Len(s) : t[i] \in FileBytes
    BY <1>1, <1>3, ElementOfSeq
  <2>2. /\ u \in Seq(FileBytes) /\ Len(u) = Len(s)
        /\ \A i \in 1..Len(s) : u[i] = t[i]
    BY <1>1, <2>1, SubSeqProperties
  <2> HIDE DEF u
  <2>3. s = u <=> \A i \in 1..Len(s) : s[i] = u[i]
    BY <2>2, SeqEqual
  <2> QED BY <1>2, <1>3, <2>2, <2>3 DEF IsPrefix, u
<1>4. CASE ~(Len(s) <= Len(t))
  BY <1>4 DEF IsPrefix
<1> QED BY <1>3, <1>4

\* A block written at the end of a file follows what the file holds; one
\* written anywhere makes the file as long as the end of the block needs it.
LEMMA OverwriteIs ==
  ASSUME NEW d \in Seq(FileBytes), NEW p \in Nat, NEW b \in Seq(FileBytes)
  PROVE  /\ Overwrite(d, p, b) \in Seq(FileBytes)
         /\ Len(Overwrite(d, p, b)) = IF b = <<>> \/ Len(d) >= p + Len(b) THEN Len(d)
                                      ELSE p + Len(b)
         /\ \A i \in 1..Len(Overwrite(d, p, b)) :
               Overwrite(d, p, b)[i] = IF i > p /\ i <= p + Len(b) THEN b[i - p]
                                       ELSE IF i <= Len(d) THEN d[i] ELSE "hole"
<1>1. Len(d) \in Nat /\ Len(b) \in Nat /\ (b = <<>> => Len(b) = 0)
  BY LenProperties
<1>2. CASE b = <<>>
  BY <1>1, <1>2 DEF Overwrite
<1>3. CASE b # <<>>
  <2> DEFINE n == IF Len(d) >= p + Len(b) THEN Len(d) ELSE p + Len(b)
             e(i) == IF i > p /\ i <= p + Len(b) THEN b[i - p]
                     ELSE IF i <= Len(d) THEN d[i] ELSE "hole"
  <2>1. Max({Len(d), p + Len(b)}) = n /\ n \in Nat
    BY <1>1, MaxOfTwo
  <2>2. ASSUME NEW i \in 1..n PROVE e(i) \in FileBytes
    <3>1. CASE i > p /\ i <= p + Len(b)
      <4>1. i - p \in 1..Len(b)
        BY <1>1, <2>1, <3>1
      <4> QED BY <3>1, <4>1, ElementOfSeq
    <3>2. CASE ~(i > p /\ i <= p + Len(b)) /\ i <= Len(d)
      <4>1. i \in 1..Len(d)
        BY <1>1, <2>1, <3>2
      <4> QED BY <3>2, <4>1, ElementOfSeq
    <3>3. CASE ~(i > p /\ i <= p + Len(b)) /\ ~(i <= Len(d))
      BY <3>3 DEF FileBytes
    <3> QED BY <3>1, <3>2, <3>3
  <2>3. Overwrite(d, p, b) = [i \in 1..n |-> e(i)]
    <3> HIDE DEF n
    <3> QED BY <1>3, <2>1 DEF Overwrite
  <2> HIDE DEF e
  <2>4. [i \in 1..n |-> e(i)] \in Seq(FileBytes) /\ Len([i \in 1..n |-> e(i)]) = n
    <3>1. [i \in 1..n |-> e(i)] \in [1..n -> FileBytes]
      BY <2>2
    <3> QED BY <2>1, <3>1
  <2>5. \A i \in 1..n : Overwrite(d, p, b)[i] = e(i)
    BY <2>3
  <2>6. Overwrite(d, p, b) \in Seq(FileBytes) /\ Len(Overwrite(d, p, b)) = n
    BY <2>3, <2>4
  <2> QED BY <1>3, <2>5, <2>6 DEF e
<1> QED BY <1>2, <1>3

LEMMA AppendedIs ==
  ASSUME NEW d \in Seq(FileBytes), NEW b \in Seq(FileBytes)
  PROVE  /\ Overwrite(d, Len(d), b) = d \o b
         /\ IsPrefix(d, Overwrite(d, Len(d), b))
<1>1. Len(d) \in Nat /\ Len(b) \in Nat /\ (b = <<>> => Len(b) = 0)
  BY LenProperties
<1> DEFINE o == Overwrite(d, Len(d), b)
<1>2. /\ o \in Seq(FileBytes) /\ Len(o) = Len(d) + Len(b)
      /\ \A i \in 1..Len(o) : o[i] = IF i > Len(d) /\ i <= Len(d) + Len(b) THEN b[i - Len(d)]
                                     ELSE IF i <= Len(d) THEN d[i] ELSE "hole"
  <2>1. b # <<>> => Len(b) # 0
    BY EmptySeq
  <2> QED BY <1>1, <2>1, OverwriteIs
<1> HIDE DEF o
<1>3. /\ d \o b \in Seq(FileBytes) /\ Len(d \o b) = Len(d) + Len(b)
      /\ \A i \in 1..Len(d) + Len(b) : (d \o b)[i] = IF i <= Len(d) THEN d[i] ELSE b[i - Len(d)]
  BY ConcatProperties
<1>4. o = d \o b
  <2>1. \A i \in 1..Len(o) : o[i] = (d \o b)[i]
    BY <1>1, <1>2, <1>3
  <2> QED BY <1>2, <1>3, <2>1, SeqEqual
<1>5. IsPrefix(d, o)
  <2>1. Len(d) <= Len(o) /\ \A i \in 1..Len(d) : d[i] = o[i]
    BY <1>1, <1>2
  <2> QED BY <1>2, <2>1, PrefixIs
<1> QED BY <1>4, <1>5 DEF o

\* One file is a beginning of itself.
LEMMA PrefixOfItself == \A s \in Seq(FileBytes) : IsPrefix(s, s)
BY PrefixIs, LenProperties

LEMMA PrefixOfConcat == \A s, t \in Seq(FileBytes) : IsPrefix(s, s \o t)
<1> SUFFICES ASSUME NEW s \in Seq(FileBytes), NEW t \in Seq(FileBytes) PROVE IsPrefix(s, s \o t)
  OBVIOUS
<1>1. Len(s) \in Nat /\ Len(t) \in Nat
  BY LenProperties
<1>2. /\ s \o t \in Seq(FileBytes) /\ Len(s \o t) = Len(s) + Len(t)
      /\ \A i \in 1..Len(s) + Len(t) : (s \o t)[i] = IF i <= Len(s) THEN s[i] ELSE t[i - Len(s)]
  BY ConcatProperties
<1>3. Len(s) <= Len(s \o t) /\ \A i \in 1..Len(s) : s[i] = (s \o t)[i]
  BY <1>1, <1>2
<1> QED BY <1>2, <1>3, PrefixIs

-----------------------------------------------------------------------------
(* What the files take of the disk.                                         *)

OnDisk(d) == d \in [Inodes -> Seq(FileBytes)]

LEMMA StoredHas ==
  \A d, S, x : x \in Stored(d, S) <=> \E f \in S : \E i \in 1..Len(d[f]) : x = <<f, i>>
BY DEF Stored

LEMMA StoredIs ==
  ASSUME NEW d, OnDisk(d), NEW S \in SUBSET Inodes
  PROVE  IsFiniteSet(Stored(d, S)) /\ Cardinality(Stored(d, S)) \in Nat
<1>1. IsFiniteSet(S)
  BY CopyAssumption, FS_Subset
<1> DEFINE part == [f \in S |-> {f} \X (1..Len(d[f]))]
           parts == {{f} \X (1..Len(d[f])) : f \in S}
<1>2. IsFiniteSet(parts)
  <2>1. part \in Surjection(S, parts)
    BY DEF Surjection
  <2> QED BY <1>1, <2>1, FS_Surjection
<1>3. ASSUME NEW f \in S PROVE IsFiniteSet({f} \X (1..Len(d[f])))
  <2>1. Len(d[f]) \in Nat
    BY LenProperties DEF OnDisk
  <2>2. IsFiniteSet({f})
    BY FS_Singleton
  <2>3. IsFiniteSet(1..Len(d[f]))
    BY <2>1, FS_Interval
  <2> QED BY <2>2, <2>3, FS_Product
<1>4. \A p \in parts : IsFiniteSet(p)
  BY <1>3
<1>5. IsFiniteSet(UNION parts)
  <2> HIDE DEF parts
  <2> QED BY <1>2, <1>4, FS_UNION
<1>6. Stored(d, S) = UNION parts
  BY DEF Stored
<1> QED BY <1>5, <1>6, FS_CardinalityType

\* Fewer files, none of them longer, take no more.
LEMMA StoredShrinks ==
  ASSUME NEW d, OnDisk(d), NEW S \in SUBSET Inodes, NEW e, OnDisk(e), NEW T \in SUBSET Inodes,
         \A f \in S : Len(e[f]) = 0 \/ (f \in T /\ Len(e[f]) <= Len(d[f]))
  PROVE  Cardinality(Stored(e, S)) <= Cardinality(Stored(d, T))
<1>1. \A f \in Inodes : Len(d[f]) \in Nat /\ Len(e[f]) \in Nat
  BY LenProperties DEF OnDisk
<1>2. Stored(e, S) \subseteq Stored(d, T)
  <2>1. ASSUME NEW f \in S, NEW i \in 1..Len(e[f]) PROVE f \in T /\ i \in 1..Len(d[f])
    BY <1>1
  <2>2. ASSUME NEW x \in Stored(e, S) PROVE x \in Stored(d, T)
    <3>1. PICK f \in S : \E i \in 1..Len(e[f]) : x = <<f, i>>
      BY <2>2, StoredHas
    <3> QED BY <2>1, <3>1, StoredHas
  <2> QED BY <2>2
<1> QED BY <1>2, StoredIs, FS_Subset

\* A file that becomes longer by n bytes takes n bytes more.
LEMMA StoredGrows ==
  ASSUME NEW d, OnDisk(d), NEW S \in SUBSET Inodes, NEW o \in S, NEW b \in Seq(FileBytes),
         Len(b) >= Len(d[o])
  PROVE  Cardinality(Stored([d EXCEPT ![o] = b], S))
           = Cardinality(Stored(d, S)) + (Len(b) - Len(d[o]))
<1> DEFINE e == [d EXCEPT ![o] = b]
           more == {o} \X (Len(d[o]) + 1 .. Len(b))
<1>1. /\ OnDisk(e) /\ e[o] = b
      /\ \A f \in S : f # o => e[f] = d[f]
  BY DEF OnDisk
<1>2. Len(b) \in Nat /\ \A f \in S : Len(d[f]) \in Nat
  BY LenProperties DEF OnDisk
<1>3. IsFiniteSet(more) /\ Cardinality(more) = Len(b) - Len(d[o])
  <2> DEFINE new == Len(d[o]) + 1 .. Len(b)
  <2>1. IsFiniteSet(new) /\ Cardinality(new) = Len(b) - Len(d[o])
    <3>1. Len(d[o]) + 1 \in Int /\ Len(b) \in Int
      BY <1>2
    <3>2. IsFiniteSet(new)
      BY <3>1, FS_Interval
    <3>3. Cardinality(new) = IF Len(d[o]) + 1 > Len(b) THEN 0 ELSE Len(b) - (Len(d[o]) + 1) + 1
      BY <3>1, FS_Interval
    <3> QED BY <1>2, <3>2, <3>3
  <2> HIDE DEF new
  <2>2. IsFiniteSet({o}) /\ Cardinality({o}) = 1
    BY FS_Singleton
  <2>3. IsFiniteSet({o} \X new) /\ Cardinality({o} \X new) = 1 * Cardinality(new)
    BY <2>1, <2>2, FS_Product
  <2>4. more = {o} \X new
    BY DEF new
  <2> HIDE DEF more
  <2> QED BY <1>2, <2>1, <2>3, <2>4
<1> HIDE DEF e
<1>4. Stored(e, S) = Stored(d, S) \cup more
  <2>1. \A x : x \in Stored(e, S) <=> \E f \in S : \E i \in 1..Len(e[f]) : x = <<f, i>>
    BY StoredHas
  <2>2. \A x : x \in Stored(d, S) <=> \E f \in S : \E i \in 1..Len(d[f]) : x = <<f, i>>
    BY StoredHas
  <2>3. \A x : x \in more <=> \E i \in Len(d[o]) + 1 .. Len(b) : x = <<o, i>>
    OBVIOUS
  <2>4. ASSUME NEW x \in Stored(e, S) PROVE x \in Stored(d, S) \cup more
    <3>1. PICK f \in S : \E i \in 1..Len(e[f]) : x = <<f, i>>
      BY <2>1, <2>4
    <3>2. PICK i \in 1..Len(e[f]) : x = <<f, i>>
      BY <3>1
    <3>3. CASE i \in 1..Len(d[f])
      BY <2>2, <3>2, <3>3
    <3>4. CASE i \notin 1..Len(d[f])
      <4>1. f = o /\ i \in Len(d[o]) + 1 .. Len(b)
        BY <1>1, <1>2, <3>2, <3>4
      <4> QED BY <2>3, <3>2, <4>1
    <3> QED BY <3>3, <3>4
  <2>5. ASSUME NEW x \in Stored(d, S) PROVE x \in Stored(e, S)
    <3>1. PICK f \in S : \E i \in 1..Len(d[f]) : x = <<f, i>>
      BY <2>2, <2>5
    <3>2. PICK i \in 1..Len(d[f]) : x = <<f, i>>
      BY <3>1
    <3>3. i \in 1..Len(e[f])
      BY <1>1, <1>2
    <3> QED BY <2>1, <3>2, <3>3
  <2>6. ASSUME NEW x \in more PROVE x \in Stored(e, S)
    <3>1. PICK i \in Len(d[o]) + 1 .. Len(b) : x = <<o, i>>
      BY <2>3, <2>6
    <3>2. i \in 1..Len(e[o])
      BY <1>1, <1>2, <3>1
    <3> QED BY <2>1, <3>1, <3>2
  <2> QED BY <2>4, <2>5, <2>6
<1>5. Stored(d, S) \cap more = {}
  <2>1. ASSUME NEW x \in Stored(d, S), x \in more PROVE FALSE
    <3>1. PICK f \in S : \E i \in 1..Len(d[f]) : x = <<f, i>>
      BY <2>1, StoredHas
    <3>2. PICK i \in 1..Len(d[f]) : x = <<f, i>>
      BY <3>1
    <3>3. f = o /\ i \in Len(d[o]) + 1 .. Len(b)
      BY <2>1, <3>2
    <3> QED BY <1>2, <3>2, <3>3
  <2> QED BY <2>1
<1>6. IsFiniteSet(Stored(d, S)) /\ Cardinality(Stored(d, S)) \in Nat
  BY StoredIs
<1>7. Cardinality(Stored(d, S) \cup more) = Cardinality(Stored(d, S)) + Cardinality(more)
  <2> HIDE DEF more
  <2>1. Cardinality(Stored(d, S) \cup more)
          = Cardinality(Stored(d, S)) + Cardinality(more) - Cardinality(Stored(d, S) \cap more)
    BY <1>3, <1>6, FS_Union
  <2>2. Cardinality(more) \in Nat /\ Cardinality(Stored(d, S) \cap more) = 0
    BY <1>3, <1>5, FS_EmptySet, FS_CardinalityType
  <2> QED BY <1>6, <2>1, <2>2
<1> QED BY <1>3, <1>4, <1>7 DEF e

-----------------------------------------------------------------------------
(* The inductive invariant.                                                 *)

Copying == {"openSource", "openTarget", "read", "write", "close"}
Streaming == {"read", "write", "close"}
CallType ==
    [op : {"none", "copy", "append", "move"}, src : FilePaths \cup {"none"},
     dst : FilePaths \cup {"none"}, at : Copying \cup {"idle", "check", "rename"},
     in : Inodes \cup {NoFile}, out : Inodes \cup {NoFile}, pos : Nat, wpos : Nat,
     buffer : Seq(FileBytes), eof : BOOLEAN, ret : Statuses, calls : 0..MaxCalls]
StartType == [in : Seq(FileBytes), out : Seq(FileBytes)]

\* What a call c has done when it is where it is.
StageOf(c) ==
    /\ c.at # "idle" => c.src \in FilePaths /\ c.dst \in FilePaths
    /\ c.at \in Copying => c.op \in {"copy", "append"}
    /\ c.at \in {"check", "rename"} => c.op = "move"
    /\ c.in \in Inodes <=> c.at \in Streaming \cup {"openTarget"}
    /\ c.out \in Inodes <=> c.at \in Streaming
    /\ c.at \in {"openSource", "openTarget"} => c.pos = 0 /\ c.wpos = 0
    /\ Len(c.buffer) <= BlockSize
    /\ c.at = "write" => (c.eof <=> Len(c.buffer) < BlockSize)

CopyTypes ==
    /\ entry \in [FilePaths -> Inodes \cup {NoFile}]
    /\ OnDisk(data)
    /\ proc \in [Workers -> CallType]
    /\ start \in [Workers -> StartType]
    /\ alone \in [Workers -> BOOLEAN]

\* The bytes a call c has read and not yet written, and how much of its source,
\* which was s.in as its target was opened, it has written behind s.out.
Written(c, s) == IF c.at = "read" THEN c.pos ELSE c.pos - Len(c.buffer)
Waiting(c, s) ==
    /\ c.pos - Len(c.buffer) >= 0
    /\ \A i \in 1..Len(c.buffer) : c.buffer[i] = s.in[c.pos - Len(c.buffer) + i]
AtEnd(c, s) == c.pos = Len(s.in) /\ Len(c.buffer) < BlockSize

\* How far an undisturbed call c with distinct files has come.
Failed(c) == c.at = "close" /\ c.ret # "SUCCESS"
Ended(c) == (c.at = "write" /\ c.eof) \/ (c.at = "close" /\ c.ret = "SUCCESS")
ProgressOf(c, s, d) ==
    c.at \in Streaming /\ c.in # c.out =>
        /\ d[c.in] = s.in
        /\ IsPrefix(d[c.out], s.out \o s.in)
        /\ c.op = "append" \/ c.wpos = Len(d[c.out])
        /\ c.pos <= Len(s.in)
        /\ c.at = "read" \/ Failed(c) \/ Waiting(c, s)
        /\ Ended(c) => AtEnd(c, s)
        /\ Failed(c) \/ Len(d[c.out]) = Len(s.out) + Written(c, s)

Used == Cardinality(Stored(data, InUse))
CallStages == \A w \in Workers : StageOf(proc[w])
Progress == \A w \in Workers : alone[w] => ProgressOf(proc[w], start[w], data)

CopyInv == CopyTypes /\ CallStages /\ Used <= Capacity /\ Progress

-----------------------------------------------------------------------------
(* What follows from it.                                                    *)

LEMMA CopyConstants ==
  /\ NoFile \notin Inodes /\ BlockSize \in Nat /\ BlockSize > 0 /\ Capacity \in Nat
<1>1. /\ Inodes \subseteq Nat \ {NoFile}
      /\ BlockSize \in Nat \ {0} /\ Capacity \in Nat
  BY CopyAssumption
<1>2. NoFile \notin Inodes
  BY <1>1
<1>3. BlockSize \in Nat /\ BlockSize > 0 /\ Capacity \in Nat
  BY <1>1
<1> QED BY <1>2, <1>3

LEMMA InUseIs ==
  /\ InUse \subseteq Inodes
  /\ \A f \in Inodes : f \in InUse <=>
        \/ \E p \in FilePaths : entry[p] = f
        \/ \E w \in Workers : proc[w].at # "idle" /\ (proc[w].in = f \/ proc[w].out = f)
BY DEF InUse, Busy

\* While a process is to open a target there is none of, there is a file left.
LEMMA NewIsFree ==
  ASSUME CopyTypes, CallStages, NEW w \in Workers, proc[w].at = "openTarget",
         entry[proc[w].dst] = NoFile
  PROVE  New \in Inodes /\ New \notin InUse
<1> DEFINE paths == FilePaths \ {proc[w].dst}
           named == [p \in paths |-> entry[p]]
           ins == [v \in Workers |-> proc[v].in]
           outs == [v \in Workers |-> proc[v].out]
           Image(f) == {f[x] : x \in DOMAIN f}
<1>1. /\ IsFiniteSet(FilePaths) /\ IsFiniteSet(Workers) /\ IsFiniteSet(Inodes)
      /\ Cardinality(Inodes) >= Cardinality(FilePaths) + 2 * Cardinality(Workers)
      /\ NoFile \notin Inodes
  BY CopyAssumption
<1>2. proc[w].dst \in FilePaths
  BY DEF CopyTypes, CallStages, StageOf
<1>3. IsFiniteSet(paths) /\ Cardinality(paths) = Cardinality(FilePaths) - 1
  BY <1>1, <1>2, FS_RemoveElement
<1>4. ASSUME NEW f, NEW D, IsFiniteSet(D), f \in [D -> Inodes \cup {NoFile}]
      PROVE  IsFiniteSet(Image(f)) /\ Cardinality(Image(f)) <= Cardinality(D)
  <2>1. DOMAIN f = D
    BY <1>4
  <2>2. f \in Surjection(D, Image(f))
    BY <1>4, <2>1 DEF Surjection
  <2> HIDE DEF Image
  <2> QED BY <1>4, <2>2, FS_Surjection
<1>5. /\ named \in [paths -> Inodes \cup {NoFile}]
      /\ ins \in [Workers -> Inodes \cup {NoFile}]
      /\ outs \in [Workers -> Inodes \cup {NoFile}]
  BY DEF CopyTypes, CallType
<1>6. InUse \subseteq Image(named) \cup Image(ins) \cup Image(outs)
  <2> SUFFICES ASSUME NEW f \in InUse PROVE f \in Image(named) \cup Image(ins) \cup Image(outs)
    OBVIOUS
  <2>1. f \in Inodes /\ f # NoFile
    BY <1>1, InUseIs
  <2>2. CASE \E p \in FilePaths : entry[p] = f
    <3>1. PICK p \in FilePaths : entry[p] = f
      BY <2>2
    <3>2. p \in paths
      BY <2>1, <3>1
    <3> QED BY <3>1, <3>2
  <2>3. CASE \E v \in Workers : proc[v].in = f \/ proc[v].out = f
    BY <2>3
  <2> QED BY <2>1, <2>2, <2>3, InUseIs
<1> HIDE DEF named, ins, outs, Image, paths
<1>7. /\ IsFiniteSet(Image(named)) /\ Cardinality(Image(named)) <= Cardinality(paths)
      /\ IsFiniteSet(Image(ins)) /\ Cardinality(Image(ins)) <= Cardinality(Workers)
      /\ IsFiniteSet(Image(outs)) /\ Cardinality(Image(outs)) <= Cardinality(Workers)
  BY <1>1, <1>3, <1>4, <1>5
<1> DEFINE both == Image(ins) \cup Image(outs)
           all == Image(named) \cup both
<1>8. IsFiniteSet(both) /\ Cardinality(both) <= Cardinality(Image(ins)) + Cardinality(Image(outs))
  <2>1. Cardinality(Image(ins) \cap Image(outs)) \in Nat
    BY <1>7, FS_Intersection, FS_CardinalityType
  <2>2. /\ IsFiniteSet(both)
        /\ Cardinality(both) = Cardinality(Image(ins)) + Cardinality(Image(outs))
                                 - Cardinality(Image(ins) \cap Image(outs))
    BY <1>7, FS_Union
  <2>3. Cardinality(Image(ins)) \in Nat /\ Cardinality(Image(outs)) \in Nat
    BY <1>7, FS_CardinalityType
  <2> HIDE DEF both
  <2> QED BY <2>1, <2>2, <2>3
<1> HIDE DEF both
<1>9. IsFiniteSet(all) /\ Cardinality(all) <= Cardinality(Image(named)) + Cardinality(both)
  <2>1. Cardinality(Image(named) \cap both) \in Nat
    BY <1>7, FS_Intersection, FS_CardinalityType
  <2>2. /\ IsFiniteSet(all)
        /\ Cardinality(all) = Cardinality(Image(named)) + Cardinality(both)
                                - Cardinality(Image(named) \cap both)
    BY <1>7, <1>8, FS_Union
  <2>3. Cardinality(Image(named)) \in Nat /\ Cardinality(both) \in Nat
    BY <1>7, <1>8, FS_CardinalityType
  <2> HIDE DEF all
  <2> QED BY <2>1, <2>2, <2>3
<1> HIDE DEF all
<1>10. Cardinality(all) < Cardinality(Inodes)
  <2>1. /\ Cardinality(FilePaths) \in Nat /\ Cardinality(Workers) \in Nat
        /\ Cardinality(Inodes) \in Nat /\ Cardinality(all) \in Nat
        /\ Cardinality(Image(named)) \in Nat /\ Cardinality(both) \in Nat
        /\ Cardinality(Image(ins)) \in Nat /\ Cardinality(Image(outs)) \in Nat
    BY <1>1, <1>7, <1>8, <1>9, FS_CardinalityType
  <2> QED BY <1>1, <1>3, <1>7, <1>8, <1>9, <2>1
<1>11. InUse \subseteq all
  BY <1>6 DEF all, both
<1>12. \E f \in Inodes : f \notin InUse
  <2>1. SUFFICES ASSUME Inodes \subseteq InUse PROVE FALSE
    BY InUseIs
  <2>2. Inodes \in SUBSET all
    BY <1>11, <2>1
  <2>3. Cardinality(Inodes) <= Cardinality(all)
    BY <1>9, <2>2, FS_Subset
  <2> QED BY <1>1, <1>9, <1>10, <2>3, FS_CardinalityType
<1> QED BY <1>12 DEF New

-----------------------------------------------------------------------------
(* What a step of a process does to the others.                             *)

LEMMA CallMoves ==
  ASSUME CopyTypes, NEW w \in Workers, NEW c \in CallType, Changed(w, c)
  PROVE  /\ proc' \in [Workers -> CallType] /\ proc'[w] = c
         /\ \A v \in Workers : v # w => proc'[v] = proc[v]
BY DEF CopyTypes, Changed

LEMMA AloneMoves ==
  ASSUME CopyTypes, NEW w \in Workers, alone' = Alone(w)
  PROVE  /\ alone' \in [Workers -> BOOLEAN]
         /\ \A v \in Workers : alone'[v] => v = w /\ alone[w]
BY DEF CopyTypes, Alone

LEMMA StepKeeps ==
  ASSUME CopyInv, NEW w \in Workers, NEW c \in CallType, StageOf(c), Changed(w, c),
         entry' \in [FilePaths -> Inodes \cup {NoFile}], OnDisk(data'),
         start' \in [Workers -> StartType],
         alone' \in [Workers -> BOOLEAN], \A v \in Workers : alone'[v] => v = w,
         Used' <= Capacity,
         alone'[w] => ProgressOf(c, start'[w], data')
  PROVE  CopyInv'
<1>1. /\ proc' \in [Workers -> CallType] /\ proc'[w] = c
      /\ \A v \in Workers : v # w => proc'[v] = proc[v]
  BY CallMoves DEF CopyInv
<1>2. CopyTypes'
  BY <1>1 DEF CopyTypes
<1>3. CallStages'
  BY <1>1 DEF CopyInv, CallStages
<1>4. Progress'
  BY <1>1 DEF Progress
<1> QED BY <1>2, <1>3, <1>4 DEF CopyInv

\* Files come into use only through the step that creates them.
LEMMA InUseGrows ==
  ASSUME CopyTypes, NEW w \in Workers, NEW c \in CallType, Changed(w, c), NEW o,
         \A p \in FilePaths : entry'[p] \in InUse \cup {NoFile, o},
         c.at = "idle" \/ (c.in \in InUse \cup {NoFile, o} /\ c.out \in InUse \cup {NoFile, o})
  PROVE  InUse' \subseteq InUse \cup {o}
<1>1. /\ proc'[w] = c
      /\ \A v \in Workers : v # w => proc'[v] = proc[v]
  BY CallMoves
<1>2. NoFile \notin Inodes
  BY CopyConstants
<1> SUFFICES ASSUME NEW f \in InUse' PROVE f \in InUse \cup {o}
  OBVIOUS
<1>3. f \in Inodes /\ f # NoFile
  BY <1>2 DEF InUse
<1>4. CASE \E p \in FilePaths : entry'[p] = f
  BY <1>3, <1>4
<1>5. CASE \E v \in Workers : proc'[v].at # "idle" /\ (proc'[v].in = f \/ proc'[v].out = f)
  <2>1. PICK v \in Workers : proc'[v].at # "idle" /\ (proc'[v].in = f \/ proc'[v].out = f)
    BY <1>5
  <2>2. CASE v = w
    BY <1>1, <1>3, <2>1, <2>2
  <2>3. CASE v # w
    BY <1>1, <1>3, <2>1, <2>3, InUseIs
  <2> QED BY <2>2, <2>3
<1> QED BY <1>4, <1>5 DEF InUse, Busy

LEMMA InUseShrinks ==
  ASSUME CopyTypes, NEW w \in Workers, NEW c \in CallType, Changed(w, c),
         \A p \in FilePaths : entry'[p] \in InUse \cup {NoFile},
         c.at = "idle" \/ (c.in \in InUse \cup {NoFile} /\ c.out \in InUse \cup {NoFile})
  PROVE  InUse' \subseteq InUse
<1>1. InUse' \subseteq InUse \cup {NoFile}
  BY InUseGrows
<1>2. NoFile \notin InUse'
  BY CopyConstants DEF InUse
<1> QED BY <1>1, <1>2

\* A step that leaves the files as they are.
LEMMA QuietStep ==
  ASSUME CopyInv, NEW w \in Workers, NEW c \in CallType, StageOf(c), Changed(w, c),
         entry' \in [FilePaths -> Inodes \cup {NoFile}],
         \A p \in FilePaths : entry'[p] \in InUse \cup {NoFile},
         c.at = "idle" \/ (c.in \in InUse \cup {NoFile} /\ c.out \in InUse \cup {NoFile}),
         alone' = Alone(w), data' = data, start' = start,
         alone[w] => ProgressOf(c, start[w], data)
  PROVE  CopyInv'
<1>1. CopyTypes /\ Used <= Capacity /\ OnDisk(data) /\ InUse \in SUBSET Inodes
  BY InUseIs DEF CopyInv, CopyTypes
<1>2. InUse' \subseteq InUse
  BY <1>1, InUseShrinks
<1>3. Stored(data, InUse') \subseteq Stored(data, InUse)
  BY <1>2 DEF Stored
<1>4. Cardinality(Stored(data, InUse')) <= Cardinality(Stored(data, InUse))
  BY <1>1, <1>3, StoredIs, FS_Subset
<1>5. Used' <= Capacity
  <2>1. Used \in Nat /\ Cardinality(Stored(data, InUse')) \in Nat
    BY <1>1, <1>2, StoredIs DEF Used
  <2> QED BY <1>1, <1>4, <2>1, CopyAssumption DEF Used
<1>6. alone' \in [Workers -> BOOLEAN] /\ \A v \in Workers : alone'[v] => v = w /\ alone[w]
  BY <1>1, AloneMoves
<1>7. start' \in [Workers -> StartType] /\ OnDisk(data')
  BY <1>1 DEF CopyTypes
<1>8. alone'[w] => ProgressOf(c, start'[w], data')
  BY <1>6
<1> QED BY <1>5, <1>6, <1>7, <1>8, StepKeeps

LEMMA EntriesInUse ==
  CopyTypes => \A p \in FilePaths : entry[p] \in InUse \cup {NoFile}
BY InUseIs DEF CopyTypes

\* Whoever is at work uses its files.
LEMMA FilesInUse ==
  ASSUME CopyTypes, NEW w \in Workers, proc[w].at # "idle"
  PROVE  /\ proc[w].in \in InUse \cup {NoFile}
         /\ proc[w].out \in InUse \cup {NoFile}
BY InUseIs DEF CopyTypes, CallType

\* A call that does not stream has no progress to speak of.
LEMMA NotStreaming == \A c, s, d : c.at \notin Streaming => ProgressOf(c, s, d)
BY DEF ProgressOf

LEMMA NoCallIs ==
  NoCall \in CallType /\ StageOf(NoCall) /\ NoCall.at = "idle"
<1>1. <<>> \in Seq(FileBytes) /\ Len(<<>>) = 0
  BY EmptySeq
<1>2. NoCall \in CallType
  BY <1>1, CopyAssumption DEF NoCall, CallType, Copying, Statuses
<1>3. StageOf(NoCall)
  BY <1>1, CopyAssumption DEF NoCall, StageOf, Copying, Streaming
<1> QED BY <1>2, <1>3 DEF NoCall

\* A call that begins has read and written nothing, and has no files open.
Begun(op, a, b, at, n) == [NoCall EXCEPT !.op = op, !.src = a, !.dst = b, !.at = at, !.calls = n]

LEMMA CallBegins ==
  ASSUME NEW op \in {"copy", "append", "move"}, NEW a \in FilePaths, NEW b \in FilePaths,
         NEW n \in 0..MaxCalls,
         NEW at \in {"openSource", "check"}, at = "check" <=> op = "move"
  PROVE  /\ Begun(op, a, b, at, n) \in CallType /\ StageOf(Begun(op, a, b, at, n))
         /\ Begun(op, a, b, at, n).at = at
         /\ Begun(op, a, b, at, n).in = NoFile /\ Begun(op, a, b, at, n).out = NoFile
<1> DEFINE c == Begun(op, a, b, at, n)
<1>1. NoCall \in CallType
  BY NoCallIs
<1>2. c \in CallType
  BY <1>1 DEF CallType, Copying, Begun
<1>3. /\ c.op = op /\ c.src = a /\ c.dst = b /\ c.at = at /\ c.in = NoFile /\ c.out = NoFile
      /\ c.pos = 0 /\ c.wpos = 0 /\ c.buffer = <<>>
  BY DEF NoCall, Begun
<1> HIDE DEF c
<1>4. StageOf(c)
  <2>1. Len(c.buffer) = 0
    BY <1>3, EmptySeq
  <2>2. Len(c.buffer) <= BlockSize /\ c.in \notin Inodes /\ c.out \notin Inodes
    BY <1>3, <2>1, CopyConstants
  <2>3. at \in {"openSource", "check"} /\ op \in {"copy", "append", "move"}
        /\ (at = "check" <=> op = "move")
    OBVIOUS
  <2> QED BY <1>3, <2>2, <2>3 DEF StageOf, Copying, Streaming
<1> QED BY <1>2, <1>3, <1>4 DEF c

LEMMA FailKeeps ==
  ASSUME CopyInv, NEW w \in Workers, NEW r \in Statuses, Fail(w, r),
         entry' \in [FilePaths -> Inodes \cup {NoFile}],
         \A p \in FilePaths : entry'[p] \in InUse \cup {NoFile},
         alone' = Alone(w), data' = data, start' = start
  PROVE  CopyInv'
<1> DEFINE c == [proc[w] EXCEPT !.at = "idle", !.ret = r, !.in = NoFile, !.out = NoFile]
<1>1. proc[w] \in CallType /\ StageOf(proc[w])
  BY DEF CopyInv, CopyTypes, CallStages
<1>2. c \in CallType /\ c.at = "idle" /\ c.in = NoFile /\ c.out = NoFile /\ c.buffer = proc[w].buffer
  BY <1>1 DEF CallType
<1>3. Changed(w, c)
  BY DEF Fail
<1> HIDE DEF c
<1>4. StageOf(c)
  BY <1>1, <1>2, CopyAssumption DEF StageOf, Copying, Streaming
<1>5. ProgressOf(c, start[w], data)
  BY <1>2, NotStreaming DEF Streaming
<1> QED BY <1>2, <1>3, <1>4, <1>5, QuietStep

-----------------------------------------------------------------------------
(* The steps that leave the files as they are.                              *)

LEMMA CallStep ==
  ASSUME CopyInv, NEW w \in Workers, NEW call \in Calls, Call(w, call)
  PROVE  CopyInv'
<1>1. CopyTypes /\ proc[w].at = "idle" /\ proc[w] \in CallType /\ proc[w].calls + 1 \in 0..MaxCalls
  BY CopyAssumption DEF CopyInv, CopyTypes, Call, Busy, CallType
<1>2. /\ call.op \in {"copy", "append", "move"}
      /\ call.src \in FilePaths /\ call.dst \in FilePaths
  BY CopyAssumption
<1>3. /\ entry' = entry /\ data' = data /\ start' = start /\ alone' = Alone(w)
      /\ entry' \in [FilePaths -> Inodes \cup {NoFile}]
      /\ \A p \in FilePaths : entry'[p] \in InUse \cup {NoFile}
  BY <1>1, EntriesInUse DEF Call, CopyTypes
<1> DEFINE n == proc[w].calls + 1
           at == IF call.op = "move" THEN "check" ELSE "openSource"
           c == Begun(call.op, call.src, call.dst, at, n)
           r == [NoCall EXCEPT !.ret = "GENERICERROR", !.calls = n]
<1>4. CASE Changed(w, r)
  <2>1. NoCall \in CallType /\ StageOf(NoCall) /\ NoCall.at = "idle"
    BY NoCallIs
  <2>2. r \in CallType
    <3>1. n \in 0..MaxCalls /\ "GENERICERROR" \in Statuses
      BY <1>1 DEF Statuses
    <3> HIDE DEF n
    <3> QED BY <2>1, <3>1 DEF CallType
  <2>3. /\ r.at = "idle" /\ r.src = NoCall.src /\ r.dst = NoCall.dst /\ r.in = NoCall.in
        /\ r.out = NoCall.out /\ r.buffer = NoCall.buffer
    BY DEF NoCall
  <2> HIDE DEF r
  <2>4. StageOf(r)
    BY <2>1, <2>3 DEF StageOf, Copying, Streaming
  <2>6. r.at = "idle" \/ (r.in \in InUse \cup {NoFile} /\ r.out \in InUse \cup {NoFile})
    BY <2>3
  <2>5. ProgressOf(r, start[w], data)
    BY <2>3, NotStreaming DEF Streaming
  <2> QED BY <1>3, <1>4, <2>2, <2>4, <2>5, <2>6, QuietStep
<1>5. CASE Changed(w, c)
  <2>1. /\ at \in {"openSource", "check"} /\ (at = "check" <=> call.op = "move")
        /\ n \in 0..MaxCalls
    BY <1>1
  <2> HIDE DEF at, n
  <2>2. c \in CallType /\ StageOf(c) /\ c.at = at /\ c.in = NoFile /\ c.out = NoFile
    BY <1>2, <2>1, CallBegins
  <2> HIDE DEF c
  <2>3. ProgressOf(c, start[w], data)
    BY <2>1, <2>2, NotStreaming DEF Streaming
  <2> QED BY <1>3, <1>5, <2>2, <2>3, QuietStep
<1>6. Changed(w, r) \/ Changed(w, c)
  BY DEF Call, Begin, Begun
<1> QED BY <1>4, <1>5, <1>6

LEMMA OpenSourceStep ==
  ASSUME CopyInv, NEW w \in Workers, OpenSource(w)
  PROVE  CopyInv'
<1>1. CopyTypes /\ proc[w].at = "openSource" /\ proc[w] \in CallType /\ StageOf(proc[w])
  BY DEF CopyInv, CopyTypes, CallStages, OpenSource
<1>2. /\ entry' = entry /\ data' = data /\ start' = start /\ alone' = Alone(w)
      /\ entry' \in [FilePaths -> Inodes \cup {NoFile}]
      /\ \A p \in FilePaths : entry'[p] \in InUse \cup {NoFile}
  BY <1>1, EntriesInUse DEF OpenSource, CopyTypes
<1>3. CASE Fail(w, "UNABLETOOPEN")
  BY <1>2, <1>3, FailKeeps DEF Statuses
<1> DEFINE f == entry[proc[w].src]
           c == [proc[w] EXCEPT !.in = f, !.at = "openTarget"]
<1>4. CASE f # NoFile /\ Changed(w, c)
  <2>1. f \in InUse /\ f \in Inodes
    <3>1. proc[w].src \in FilePaths
      BY <1>1 DEF StageOf
    <3> QED BY <1>1, <1>4, <3>1, EntriesInUse, InUseIs
  <2> HIDE DEF f
  <2>2. c \in CallType
    BY <1>1, <2>1 DEF CallType, Copying
  <2>3. /\ c.at = "openTarget" /\ c.in = f /\ c.out = proc[w].out /\ c.op = proc[w].op
        /\ c.src = proc[w].src /\ c.dst = proc[w].dst /\ c.pos = proc[w].pos
        /\ c.wpos = proc[w].wpos /\ c.buffer = proc[w].buffer
    BY <1>1 DEF CallType
  <2> HIDE DEF c
  <2>4. StageOf(c)
    BY <1>1, <2>1, <2>3 DEF StageOf, Copying, Streaming
  <2>5. c.in \in InUse \cup {NoFile} /\ c.out \in InUse \cup {NoFile}
    BY <1>1, <2>1, <2>3, FilesInUse
  <2>6. ProgressOf(c, start[w], data)
    BY <2>3, NotStreaming DEF Streaming
  <2> QED BY <1>2, <1>4, <2>2, <2>4, <2>5, <2>6, QuietStep
<1> QED BY <1>3, <1>4 DEF OpenSource

LEMMA MoveChecksStep ==
  ASSUME CopyInv, NEW w \in Workers, MoveChecks(w)
  PROVE  CopyInv'
<1>1. CopyTypes /\ proc[w].at = "check" /\ proc[w] \in CallType /\ StageOf(proc[w])
  BY DEF CopyInv, CopyTypes, CallStages, MoveChecks
<1>2. /\ entry' = entry /\ data' = data /\ start' = start /\ alone' = Alone(w)
      /\ entry' \in [FilePaths -> Inodes \cup {NoFile}]
      /\ \A p \in FilePaths : entry'[p] \in InUse \cup {NoFile}
  BY <1>1, EntriesInUse DEF MoveChecks, CopyTypes
<1>3. CASE Fail(w, "PATHSIZETOOBIG") \/ Fail(w, "NOTAREGULARFILE")
  <2>1. "PATHSIZETOOBIG" \in Statuses /\ "NOTAREGULARFILE" \in Statuses
    BY DEF Statuses
  <2> QED BY <1>2, <1>3, <2>1, FailKeeps
<1> DEFINE c == [proc[w] EXCEPT !.at = "rename"]
<1>4. CASE Changed(w, c)
  <2>1. c \in CallType
    BY <1>1 DEF CallType
  <2>2. /\ c.at = "rename" /\ c.in = proc[w].in /\ c.out = proc[w].out /\ c.op = proc[w].op
        /\ c.src = proc[w].src /\ c.dst = proc[w].dst /\ c.buffer = proc[w].buffer
    BY <1>1 DEF CallType
  <2> HIDE DEF c
  <2>3. StageOf(c)
    BY <1>1, <2>2 DEF StageOf, Copying, Streaming
  <2>4. c.in \in InUse \cup {NoFile} /\ c.out \in InUse \cup {NoFile}
    BY <1>1, <2>2, FilesInUse
  <2>5. ProgressOf(c, start[w], data)
    BY <2>2, NotStreaming DEF Streaming
  <2> QED BY <1>2, <1>4, <2>1, <2>3, <2>4, <2>5, QuietStep
<1>5. Fail(w, "PATHSIZETOOBIG") \/ Fail(w, "NOTAREGULARFILE") \/ Changed(w, c)
  BY DEF MoveChecks
<1> QED BY <1>3, <1>4, <1>5

LEMMA MoveRenamesStep ==
  ASSUME CopyInv, NEW w \in Workers, MoveRenames(w)
  PROVE  CopyInv'
<1>1. CopyTypes /\ proc[w].at = "rename" /\ proc[w] \in CallType /\ StageOf(proc[w])
  BY DEF CopyInv, CopyTypes, CallStages, MoveRenames
<1>2. data' = data /\ start' = start /\ alone' = Alone(w)
  BY DEF MoveRenames
<1>3. "UNABLETOMOVE" \in Statuses /\ "SUCCESS" \in Statuses
  BY DEF Statuses
<1>4. Fail(w, "UNABLETOMOVE") \/ Fail(w, "SUCCESS")
  BY DEF MoveRenames
<1>5. proc[w].src \in FilePaths /\ proc[w].dst \in FilePaths
  BY <1>1 DEF StageOf
<1>6. /\ entry \in [FilePaths -> Inodes \cup {NoFile}]
      /\ \A p \in FilePaths : entry[p] \in InUse \cup {NoFile}
  BY <1>1, EntriesInUse DEF CopyTypes
<1> DEFINE a == proc[w].src
           b == proc[w].dst
<1>7. entry' = entry \/ entry' = [entry EXCEPT ![b] = entry[a], ![a] = NoFile]
  BY DEF MoveRenames
<1>8. /\ entry' \in [FilePaths -> Inodes \cup {NoFile}]
      /\ \A p \in FilePaths : entry'[p] \in InUse \cup {NoFile}
  <2> HIDE DEF a, b
  <2>1. a \in FilePaths /\ b \in FilePaths
    BY <1>5 DEF a, b
  <2> QED BY <1>6, <1>7, <2>1
<1> QED BY <1>2, <1>3, <1>4, <1>8, FailKeeps

-----------------------------------------------------------------------------
(* A target is opened.                                                      *)

TargetOf(w) == IF entry[proc[w].dst] = NoFile THEN New ELSE entry[proc[w].dst]
KeptOf(w) ==
    IF proc[w].op = "append" /\ entry[proc[w].dst] # NoFile THEN data[TargetOf(w)] ELSE <<>>

LEMMA OpenTargetIs ==
  ASSUME NEW w \in Workers, OpenTarget(w)
  PROVE  /\ proc[w].at = "openTarget"
         /\ entry' = [entry EXCEPT ![proc[w].dst] = TargetOf(w)]
         /\ data' = [data EXCEPT ![TargetOf(w)] = KeptOf(w)]
         /\ Changed(w, [proc[w] EXCEPT !.out = TargetOf(w), !.at = "read"])
         /\ start' = [start EXCEPT ![w] = [in |-> data[proc[w].in], out |-> KeptOf(w)]]
         /\ alone' = [v \in Workers |-> v = w]
BY DEF OpenTarget, TargetOf, KeptOf

\* What is opened is a file with nothing in it, or it was in use before.
LEMMA TargetIs ==
  ASSUME CopyInv, NEW w \in Workers, proc[w].at = "openTarget"
  PROVE  /\ TargetOf(w) \in Inodes
         /\ KeptOf(w) \in Seq(FileBytes)
         /\ KeptOf(w) = <<>> \/ (TargetOf(w) \in InUse /\ KeptOf(w) = data[TargetOf(w)])
         /\ proc[w].op # "append" => KeptOf(w) = <<>>
         /\ entry[proc[w].dst] = NoFile => TargetOf(w) \notin InUse
         /\ entry[proc[w].dst] # NoFile => TargetOf(w) = entry[proc[w].dst]
<1>1. CopyTypes /\ CallStages /\ StageOf(proc[w])
  BY DEF CopyInv, CallStages
<1>2. proc[w].dst \in FilePaths
  BY <1>1 DEF StageOf
<1>3. <<>> \in Seq(FileBytes)
  BY EmptySeq
<1>4. CASE entry[proc[w].dst] = NoFile
  <2>1. New \in Inodes /\ New \notin InUse
    BY <1>1, <1>4, NewIsFree
  <2> QED BY <1>3, <1>4, <2>1 DEF TargetOf, KeptOf
<1>5. CASE entry[proc[w].dst] # NoFile
  <2>1. TargetOf(w) = entry[proc[w].dst] /\ TargetOf(w) \in InUse
    BY <1>1, <1>2, <1>5, EntriesInUse DEF TargetOf
  <2>2. TargetOf(w) \in Inodes
    BY <2>1, InUseIs
  <2>3. data[TargetOf(w)] \in Seq(FileBytes)
    BY <1>1, <2>2 DEF CopyTypes, OnDisk
  <2> QED BY <1>3, <1>5, <2>1, <2>2, <2>3 DEF KeptOf
<1> QED BY <1>4, <1>5

LEMMA OpenTargetStep ==
  ASSUME CopyInv, NEW w \in Workers, OpenTarget(w)
  PROVE  CopyInv'
<1> DEFINE o == TargetOf(w)
           k == KeptOf(w)
           c == [proc[w] EXCEPT !.out = o, !.at = "read"]
           s == [in |-> data[proc[w].in], out |-> k]
<1>1. /\ proc[w].at = "openTarget"
      /\ entry' = [entry EXCEPT ![proc[w].dst] = o]
      /\ data' = [data EXCEPT ![o] = k]
      /\ Changed(w, c)
      /\ start' = [start EXCEPT ![w] = s]
      /\ alone' = [v \in Workers |-> v = w]
  BY OpenTargetIs
<1>2. /\ o \in Inodes /\ k \in Seq(FileBytes)
      /\ k = <<>> \/ (o \in InUse /\ k = data[o])
      /\ proc[w].op # "append" => k = <<>>
  BY <1>1, TargetIs
<1> HIDE DEF o, k
<1>3. CopyTypes /\ Used <= Capacity /\ proc[w] \in CallType /\ StageOf(proc[w])
  BY DEF CopyInv, CopyTypes, CallStages
<1>4. proc[w].in \in Inodes /\ data[proc[w].in] \in Seq(FileBytes)
  BY <1>1, <1>3 DEF StageOf, CopyTypes, OnDisk, Streaming
<1>5. c \in CallType
  BY <1>2, <1>3 DEF CallType, Copying
<1>6. /\ c.at = "read" /\ c.in = proc[w].in /\ c.out = o /\ c.op = proc[w].op
      /\ c.src = proc[w].src /\ c.dst = proc[w].dst /\ c.pos = proc[w].pos
      /\ c.wpos = proc[w].wpos /\ c.buffer = proc[w].buffer
  BY <1>3 DEF CallType
<1> HIDE DEF c
<1>7. StageOf(c)
  BY <1>1, <1>2, <1>3, <1>4, <1>6 DEF StageOf, Copying, Streaming
<1>8. s \in StartType /\ s.in = data[proc[w].in] /\ s.out = k
  BY <1>2, <1>4 DEF StartType
<1> HIDE DEF s
<1>9. /\ entry' \in [FilePaths -> Inodes \cup {NoFile}] /\ OnDisk(data')
      /\ start' \in [Workers -> StartType] /\ start'[w] = s
      /\ alone' \in [Workers -> BOOLEAN] /\ \A v \in Workers : alone'[v] => v = w
  <2>1. entry \in [FilePaths -> Inodes \cup {NoFile}] /\ start \in [Workers -> StartType]
        /\ OnDisk(data)
    BY <1>3 DEF CopyTypes
  <2>2. entry' \in [FilePaths -> Inodes \cup {NoFile}]
    BY <1>1, <1>2, <2>1
  <2>3. OnDisk(data')
    BY <1>1, <1>2, <2>1 DEF OnDisk
  <2>4. start' \in [Workers -> StartType] /\ start'[w] = s
    BY <1>1, <1>8, <2>1
  <2> QED BY <1>1, <2>2, <2>3, <2>4
<1>10. Used' <= Capacity
  <2>1. \A p \in FilePaths : entry'[p] \in InUse \cup {NoFile, o}
    <3>1. \A p \in FilePaths : entry[p] \in InUse \cup {NoFile}
      BY <1>3, EntriesInUse
    <3>2. entry \in [FilePaths -> Inodes \cup {NoFile}]
      BY <1>3 DEF CopyTypes
    <3> QED BY <1>1, <3>1, <3>2
  <2>2. c.in \in InUse \cup {NoFile, o} /\ c.out \in InUse \cup {NoFile, o}
    BY <1>1, <1>3, <1>6, FilesInUse
  <2>3. InUse' \subseteq InUse \cup {o}
    BY <1>1, <1>3, <1>5, <2>1, <2>2, InUseGrows
  <2>4. OnDisk(data) /\ InUse \in SUBSET Inodes /\ InUse' \in SUBSET Inodes
    BY <1>2, <1>3, <2>3, InUseIs DEF CopyTypes
  <2>5. ASSUME NEW f \in InUse'
        PROVE  Len(data'[f]) = 0 \/ (f \in InUse /\ Len(data'[f]) <= Len(data[f]))
    <3>1. Len(data[f]) \in Nat
      BY <2>4, LenProperties DEF OnDisk
    <3>2. CASE f = o
      <4>1. data'[f] = k
        BY <1>1, <2>4, <3>2 DEF OnDisk
      <4>2. CASE k = <<>>
        BY <4>1, <4>2, EmptySeq
      <4>3. CASE o \in InUse /\ k = data[o]
        BY <3>1, <3>2, <4>1, <4>3
      <4> QED BY <1>2, <4>2, <4>3
    <3>3. CASE f # o
      <4>1. data'[f] = data[f]
        BY <1>1, <2>4, <3>3 DEF OnDisk
      <4> QED BY <2>3, <3>1, <3>3, <4>1
    <3> QED BY <3>2, <3>3
  <2>6. Cardinality(Stored(data', InUse')) <= Cardinality(Stored(data, InUse))
    BY <1>9, <2>4, <2>5, StoredShrinks
  <2>7. Used \in Nat /\ Used' \in Nat
    BY <1>9, <2>4, StoredIs DEF Used
  <2> QED BY <1>3, <2>6, <2>7, CopyConstants DEF Used
<1>11. ProgressOf(c, start'[w], data')
  <2>1. c.pos = 0 /\ c.wpos = 0
    BY <1>1, <1>3, <1>6 DEF StageOf
  <2>2. c.in # c.out => data'[c.in] = s.in
    BY <1>1, <1>3, <1>4, <1>6, <1>8 DEF CopyTypes, OnDisk
  <2>3. data'[c.out] = k
    BY <1>1, <1>2, <1>3, <1>6 DEF CopyTypes, OnDisk
  <2>4. IsPrefix(k, s.out \o s.in)
    BY <1>2, <1>4, <1>8, PrefixOfConcat
  <2>5. c.op = "append" \/ c.wpos = Len(k)
    BY <1>2, <1>6, <2>1, EmptySeq
  <2>6. Len(k) \in Nat /\ Len(s.in) \in Nat
    BY <1>2, <1>4, <1>8, LenProperties
  <2>7. ~Ended(c)
    BY <1>6 DEF Ended
  <2> QED BY <1>6, <1>8, <1>9, <2>1, <2>2, <2>3, <2>4, <2>5, <2>6, <2>7 DEF ProgressOf, Written
<1> QED BY <1>1, <1>5, <1>7, <1>9, <1>10, <1>11, StepKeeps

-----------------------------------------------------------------------------
(* A block is read.                                                         *)

Taken(s, pos) == Max({0, Min({BlockSize, Len(s) - pos})})

LEMMA TakenIs ==
  ASSUME NEW s \in Seq(FileBytes), NEW pos \in Nat
  PROVE  /\ Taken(s, pos) \in 0..BlockSize
         /\ pos <= Len(s) => pos + Taken(s, pos) <= Len(s)
         /\ pos <= Len(s) /\ Taken(s, pos) < BlockSize => pos + Taken(s, pos) = Len(s)
         /\ SubSeq(s, pos + 1, pos + Taken(s, pos)) \in Seq(FileBytes)
         /\ Len(SubSeq(s, pos + 1, pos + Taken(s, pos))) = Taken(s, pos)
         /\ \A i \in 1..Taken(s, pos) : SubSeq(s, pos + 1, pos + Taken(s, pos))[i] = s[pos + i]
<1>1. Len(s) \in Nat /\ BlockSize \in Nat /\ BlockSize > 0
  BY LenProperties, CopyConstants
<1> DEFINE m == IF BlockSize <= Len(s) - pos THEN BlockSize ELSE Len(s) - pos
           n == IF 0 >= m THEN 0 ELSE m
<1>2. Min({BlockSize, Len(s) - pos}) = m /\ m \in Int
  BY <1>1, MinOfTwo
<1>3. Taken(s, pos) = n
  <2> HIDE DEF m
  <2>1. Max({0, m}) = n
    BY <1>2, MaxOfTwo
  <2> QED BY <1>2, <2>1 DEF Taken
<1>4. /\ n \in 0..BlockSize
      /\ pos <= Len(s) => pos + n <= Len(s)
      /\ pos <= Len(s) /\ n < BlockSize => pos + n = Len(s)
      /\ \A i \in pos + 1 .. pos + n : i \in 1..Len(s)
  BY <1>1
<1> HIDE DEF n
<1>5. \A i \in pos + 1 .. pos + n : s[i] \in FileBytes
  BY <1>4, ElementOfSeq
<1> DEFINE b == SubSeq(s, pos + 1, pos + n)
<1>6. /\ b \in Seq(FileBytes)
      /\ Len(b) = IF pos + 1 <= pos + n THEN (pos + n) - (pos + 1) + 1 ELSE 0
      /\ \A i \in 1 .. (pos + n) - (pos + 1) + 1 : b[i] = s[(pos + 1) + i - 1]
  <2>1. pos + 1 \in Int /\ pos + n \in Int
    BY <1>1, <1>4
  <2> QED BY <1>5, <2>1, SubSeqProperties
<1> HIDE DEF b
<1>7. Len(b) = n /\ \A i \in 1..n : b[i] = s[pos + i]
  <2>1. n \in Nat /\ (pos + n) - (pos + 1) + 1 = n
    BY <1>1, <1>4
  <2>2. Len(b) = n
    BY <1>6, <2>1
  <2>3. ASSUME NEW i \in 1..n PROVE b[i] = s[pos + i]
    <3>1. b[i] = s[(pos + 1) + i - 1]
      BY <1>6, <2>1
    <3>2. (pos + 1) + i - 1 = pos + i
      BY <2>1
    <3> QED BY <3>1, <3>2
  <2> QED BY <2>2, <2>3
<1> QED BY <1>3, <1>4, <1>6, <1>7 DEF b

LEMMA ReadStep ==
  ASSUME CopyInv, NEW w \in Workers, Read(w)
  PROVE  CopyInv'
<1> DEFINE in == data[proc[w].in]
           pos == proc[w].pos
           n == Taken(in, pos)
           b == SubSeq(in, pos + 1, pos + n)
           c == [proc[w] EXCEPT !.buffer = b, !.pos = pos + n, !.eof = n < BlockSize,
                                !.at = "write"]
<1>1. /\ proc[w].at = "read" /\ Changed(w, c)
      /\ entry' = entry /\ data' = data /\ start' = start /\ alone' = Alone(w)
  BY DEF Read, Taken
<1>2. CopyTypes /\ proc[w] \in CallType /\ StageOf(proc[w])
  BY DEF CopyInv, CopyTypes, CallStages
<1>3. /\ entry' \in [FilePaths -> Inodes \cup {NoFile}]
      /\ \A p \in FilePaths : entry'[p] \in InUse \cup {NoFile}
  BY <1>1, <1>2, EntriesInUse DEF CopyTypes
<1>4. proc[w].in \in Inodes /\ in \in Seq(FileBytes) /\ pos \in Nat
  BY <1>1, <1>2 DEF StageOf, CopyTypes, OnDisk, Streaming, CallType
<1> HIDE DEF in
<1>5. /\ n \in 0..BlockSize
      /\ pos <= Len(in) => pos + n <= Len(in)
      /\ pos <= Len(in) /\ n < BlockSize => pos + n = Len(in)
      /\ b \in Seq(FileBytes) /\ Len(b) = n
      /\ \A i \in 1..n : b[i] = in[pos + i]
  BY <1>4, TakenIs
<1>6. BlockSize \in Nat /\ Len(in) \in Nat
  BY <1>4, CopyConstants, LenProperties
<1> HIDE DEF n, b
<1>7. c \in CallType
  <2>1. pos + n \in Nat /\ (n < BlockSize) \in BOOLEAN
    BY <1>4, <1>5, <1>6
  <2> DEFINE m == pos + n
             e == n < BlockSize
  <2>2. m \in Nat /\ e \in BOOLEAN /\ c = [proc[w] EXCEPT !.buffer = b, !.pos = m, !.eof = e, !.at = "write"]
    BY <2>1
  <2> HIDE DEF pos, m, e
  <2>3. [proc[w] EXCEPT !.buffer = b] \in CallType
    BY <1>2, <1>5 DEF CallType
  <2>4. [[proc[w] EXCEPT !.buffer = b] EXCEPT !.pos = m] \in CallType
    BY <2>2, <2>3 DEF CallType
  <2>5. [[[proc[w] EXCEPT !.buffer = b] EXCEPT !.pos = m] EXCEPT !.eof = e] \in CallType
    BY <2>2, <2>4 DEF CallType
  <2>6. [[[[proc[w] EXCEPT !.buffer = b] EXCEPT !.pos = m] EXCEPT !.eof = e] EXCEPT !.at = "write"] \in CallType
    BY <2>5 DEF CallType, Copying
  <2> HIDE DEF c
  <2> QED BY <2>2, <2>6
<1>8. /\ c.at = "write" /\ c.in = proc[w].in /\ c.out = proc[w].out /\ c.op = proc[w].op
      /\ c.src = proc[w].src /\ c.dst = proc[w].dst /\ c.pos = pos + n
      /\ c.wpos = proc[w].wpos /\ c.buffer = b
  BY <1>2 DEF CallType
<1>12. c.eof <=> n < BlockSize
  BY <1>2 DEF CallType
<1>13. c.pos = pos + n /\ Len(c.buffer) = n /\ n \in Nat /\ pos \in Nat
  BY <1>4, <1>5, <1>6, <1>8
<1> HIDE DEF c
<1>9. StageOf(c)
  <2>1. Len(c.buffer) <= BlockSize /\ (c.eof <=> Len(c.buffer) < BlockSize)
    BY <1>5, <1>6, <1>12, <1>13
  <2> QED BY <1>1, <1>2, <1>8, <2>1 DEF StageOf, Copying, Streaming
<1>10. c.in \in InUse \cup {NoFile} /\ c.out \in InUse \cup {NoFile}
  BY <1>1, <1>2, <1>8, FilesInUse
<1>11. ASSUME alone[w] PROVE ProgressOf(c, start[w], data)
  <2> DEFINE s == start[w]
             d == data[proc[w].out]
  <2> SUFFICES ASSUME proc[w].in # proc[w].out PROVE ProgressOf(c, s, data)
    BY <1>8 DEF ProgressOf
  <2>1. ProgressOf(proc[w], s, data)
    BY <1>11 DEF CopyInv, Progress
  <2>2. /\ in = s.in /\ IsPrefix(d, s.out \o s.in)
        /\ proc[w].op = "append" \/ proc[w].wpos = Len(d)
        /\ pos <= Len(s.in) /\ Len(d) = Len(s.out) + pos
    BY <1>1, <2>1 DEF ProgressOf, Streaming, Failed, Written, in
  <2>3. s.out \in Seq(FileBytes) /\ Len(s.out) \in Nat
    BY <1>2, LenProperties DEF CopyTypes, StartType
  <2> HIDE DEF s, d, pos
  <2>4. c.pos <= Len(s.in) /\ Waiting(c, s)
    <3>1. c.pos - Len(c.buffer) = pos
      BY <1>13
    <3>2. c.pos <= Len(s.in)
      BY <1>5, <1>13, <2>2
    <3>3. ASSUME NEW i \in 1..Len(c.buffer) PROVE c.buffer[i] = s.in[pos + i]
      <4>1. b[i] = in[pos + i]
        BY <1>5, <1>13
      <4> QED BY <1>8, <2>2, <4>1
    <3> QED BY <1>13, <3>1, <3>2, <3>3 DEF Waiting
  <2>5. Ended(c) => AtEnd(c, s)
    BY <1>5, <1>8, <1>12, <1>13, <2>2 DEF Ended, AtEnd
  <2>6. Len(d) = Len(s.out) + Written(c, s)
    <3>1. Written(c, s) = pos
      BY <1>8, <1>13 DEF Written
    <3> QED BY <2>2, <3>1
  <2>7. data[c.in] = s.in /\ data[c.out] = d
    BY <1>8, <2>2 DEF in, d
  <2> QED BY <1>8, <2>2, <2>4, <2>5, <2>6, <2>7 DEF ProgressOf
<1> QED BY <1>1, <1>3, <1>7, <1>9, <1>10, <1>11, QuietStep

-----------------------------------------------------------------------------
(* A block is written.                                                      *)

LEMMA FreeIs == CopyInv => FreeBytes \in Nat /\ FreeBytes = Capacity - Used /\ Used \in Nat
<1> SUFFICES ASSUME CopyInv PROVE FreeBytes \in Nat /\ FreeBytes = Capacity - Used /\ Used \in Nat
  OBVIOUS
<1>1. Used \in Nat /\ Used <= Capacity /\ Capacity \in Nat
  BY InUseIs, StoredIs, CopyConstants DEF CopyInv, CopyTypes, Used
<1>2. FreeBytes = Capacity - Used
  BY DEF FreeBytes, Used
<1> QED BY <1>1, <1>2

\* What the disk takes of a block is a beginning of it that there is room for.
LEMMA FittingIs ==
  ASSUME FreeBytes \in Nat, NEW d \in Seq(FileBytes), NEW p \in Nat, NEW b \in Seq(FileBytes)
  PROVE  /\ Fitting(d, p, b) \in Seq(FileBytes) /\ Len(Fitting(d, p, b)) \in 0..Len(b)
         /\ \A i \in 1..Len(Fitting(d, p, b)) : Fitting(d, p, b)[i] = b[i]
         /\ Fitting(d, p, b) = <<>> \/ p + Len(Fitting(d, p, b)) <= Len(d) + FreeBytes
         /\ p = Len(d) /\ Len(Fitting(d, p, b)) < Len(b) => Len(Fitting(d, p, b)) = FreeBytes
<1> DEFINE m == Len(d) + FreeBytes - p
           room == IF 0 >= m THEN 0 ELSE m
           n == IF Len(b) <= room THEN Len(b) ELSE room
           t == SubSeq(b, 1, n)
<1>1. Len(d) \in Nat /\ Len(b) \in Nat
  BY LenProperties
<1>2. m \in Int /\ room \in Nat /\ n \in Nat
  BY <1>1
<1>3. Room(d, p) = room
  <2> HIDE DEF m
  <2>1. Max({0, m}) = room
    BY <1>2, MaxOfTwo
  <2> QED BY <2>1 DEF Room, m
<1>4. Fitting(d, p, b) = t
  <2> HIDE DEF room
  <2>1. Min({Len(b), room}) = n
    BY <1>1, <1>2, MinOfTwo
  <2> HIDE DEF n
  <2> QED BY <1>3, <2>1 DEF Fitting
<1>5. n \in 0..Len(b) /\ n <= room
  BY <1>1, <1>2
<1>6. n = 0 \/ p + n <= Len(d) + FreeBytes
  BY <1>1, <1>2
<1>7. p = Len(d) /\ n < Len(b) => n = FreeBytes
  BY <1>1, <1>2
<1> HIDE DEF n
<1>8. t \in Seq(FileBytes) /\ Len(t) = n /\ \A i \in 1..n : t[i] = b[i]
  <2>1. \A i \in 1..n : b[i] \in FileBytes
    BY <1>1, <1>5, ElementOfSeq
  <2>2. /\ t \in Seq(FileBytes) /\ Len(t) = (IF 1 <= n THEN n - 1 + 1 ELSE 0)
        /\ \A i \in 1 .. n - 1 + 1 : t[i] = b[1 + i - 1]
    BY <1>2, <2>1, SubSeqProperties
  <2> HIDE DEF t
  <2> QED BY <1>2, <2>2
<1> HIDE DEF t
<1>9. n = 0 => t = <<>>
  BY <1>8, EmptySeq
<1> QED BY <1>4, <1>5, <1>6, <1>7, <1>8, <1>9

\* The disk holds what fits.
LEMMA DiskTakes ==
  ASSUME CopyInv, NEW o \in InUse, NEW x \in Seq(FileBytes),
         Len(data[o]) <= Len(x), Len(x) <= Len(data[o]) + FreeBytes,
         data' = [data EXCEPT ![o] = x], InUse' \subseteq InUse
  PROVE  OnDisk(data') /\ Used' <= Capacity
<1>1. OnDisk(data) /\ InUse \in SUBSET Inodes /\ InUse' \in SUBSET Inodes
  BY InUseIs DEF CopyInv, CopyTypes
<1>2. OnDisk(data')
  BY <1>1 DEF OnDisk
<1>3. Len(data[o]) \in Nat /\ Len(x) \in Nat
  BY <1>1, LenProperties DEF OnDisk
<1>4. Cardinality(Stored(data', InUse)) = Used + (Len(x) - Len(data[o]))
  BY <1>1, StoredGrows DEF Used
<1>5. Stored(data', InUse') \subseteq Stored(data', InUse)
  BY DEF Stored
<1>6. Cardinality(Stored(data', InUse')) <= Cardinality(Stored(data', InUse))
  BY <1>1, <1>2, <1>5, StoredIs, FS_Subset
<1>7. FreeBytes = Capacity - Used /\ Used \in Nat /\ Capacity \in Nat
  BY FreeIs, CopyConstants
<1>8. Cardinality(Stored(data', InUse')) \in Nat /\ Cardinality(Stored(data', InUse)) \in Nat
  BY <1>1, <1>2, StoredIs
<1>9. Cardinality(Stored(data', InUse')) <= Capacity
  <2> DEFINE u == Cardinality(Stored(data', InUse))
             v == Cardinality(Stored(data', InUse'))
             l == Len(data[o])
             k == Len(x)
  <2>1. /\ u = Used + (k - l) /\ v <= u /\ k <= l + FreeBytes /\ FreeBytes = Capacity - Used
        /\ l \in Nat /\ k \in Nat /\ u \in Nat /\ v \in Nat /\ Used \in Nat /\ Capacity \in Nat
    BY <1>3, <1>4, <1>6, <1>7, <1>8
  <2> HIDE DEF u, v, l, k
  <2>2. v <= Capacity
    BY <2>1
  <2> QED BY <2>2 DEF v
<1> QED BY <1>2, <1>9 DEF Used

\* What a process does to its target, with all or nothing of its buffer.
Output(w, t) == Overwrite(data[proc[w].out], Position(w), t)

LEMMA OutputIs ==
  ASSUME CopyInv, NEW w \in Workers, proc[w].at \in {"write", "close"},
         NEW t, t = <<>> \/ t = Fitting(data[proc[w].out], Position(w), proc[w].buffer)
  PROVE  /\ proc[w].out \in InUse /\ data[proc[w].out] \in Seq(FileBytes)
         /\ Position(w) \in Nat /\ t \in Seq(FileBytes) /\ Len(t) \in 0..Len(proc[w].buffer)
         /\ Output(w, t) \in Seq(FileBytes)
         /\ Len(data[proc[w].out]) <= Len(Output(w, t))
         /\ Len(Output(w, t)) <= Len(data[proc[w].out]) + FreeBytes
<1> DEFINE d == data[proc[w].out]
           p == Position(w)
           b == proc[w].buffer
<1>1. CopyTypes /\ proc[w] \in CallType /\ StageOf(proc[w]) /\ FreeBytes \in Nat
  BY FreeIs DEF CopyInv, CopyTypes, CallStages
<1>2. proc[w].out \in Inodes /\ proc[w].out # NoFile
  BY <1>1, CopyConstants DEF StageOf, Streaming
<1>3. proc[w].out \in InUse
  BY <1>1, <1>2, FilesInUse
<1>4. d \in Seq(FileBytes) /\ b \in Seq(FileBytes)
  BY <1>1, <1>2 DEF CopyTypes, OnDisk, CallType
<1>5. Len(d) \in Nat /\ Len(b) \in Nat
  BY <1>4, LenProperties
<1>6. p \in Nat
  BY <1>1, <1>5 DEF Position, CallType
<1> HIDE DEF d, p, b
<1>7. t = <<>> \/ t = Fitting(d, p, b)
  BY DEF d, p, b
<1>8. <<>> \in Seq(FileBytes) /\ Len(<<>>) = 0
  BY EmptySeq
<1>9. t \in Seq(FileBytes) /\ Len(t) \in 0..Len(b) /\ (t = <<>> \/ p + Len(t) <= Len(d) + FreeBytes)
  <2>1. CASE t = <<>>
    BY <1>5, <1>8, <2>1
  <2>2. CASE t = Fitting(d, p, b)
    <3>1. /\ Fitting(d, p, b) \in Seq(FileBytes) /\ Len(Fitting(d, p, b)) \in 0..Len(b)
          /\ Fitting(d, p, b) = <<>> \/ p + Len(Fitting(d, p, b)) <= Len(d) + FreeBytes
      BY <1>1, <1>4, <1>6, FittingIs
    <3> QED BY <2>2, <3>1
  <2> QED BY <1>7, <2>1, <2>2
<1> DEFINE x == Overwrite(d, p, t)
<1>10. /\ x \in Seq(FileBytes)
       /\ Len(x) = IF t = <<>> \/ Len(d) >= p + Len(t) THEN Len(d) ELSE p + Len(t)
  BY <1>4, <1>6, <1>9, OverwriteIs
<1> HIDE DEF x
<1>11. Len(d) <= Len(x) /\ Len(x) <= Len(d) + FreeBytes
  BY <1>1, <1>5, <1>6, <1>9, <1>10
<1>12. Output(w, t) = x
  BY DEF Output, x, d, p
<1> QED BY <1>3, <1>4, <1>6, <1>9, <1>10, <1>11, <1>12 DEF d, p, b

LEMMA CloseStep ==
  ASSUME CopyInv, NEW w \in Workers, Close(w)
  PROVE  CopyInv'
<1> DEFINE c == [proc[w] EXCEPT !.at = "idle", !.ret = proc[w].ret, !.in = NoFile, !.out = NoFile]
           o == proc[w].out
           t == Fitting(data[o], Position(w), proc[w].buffer)
           x == Output(w, t)
<1>1. /\ proc[w].at = "close" /\ Changed(w, c) /\ data' = [data EXCEPT ![o] = x]
      /\ entry' = entry /\ start' = start /\ alone' = Alone(w)
  BY DEF Close, Fail, Output
<1>2. CopyTypes /\ proc[w] \in CallType /\ StageOf(proc[w])
  BY DEF CopyInv, CopyTypes, CallStages
<1>3. /\ o \in InUse /\ x \in Seq(FileBytes)
      /\ Len(data[o]) <= Len(x) /\ Len(x) <= Len(data[o]) + FreeBytes
  BY <1>1, OutputIs
<1> HIDE DEF x, o, t
<1>4. c \in CallType /\ c.at = "idle" /\ c.in = NoFile /\ c.out = NoFile /\ c.buffer = proc[w].buffer
  BY <1>2 DEF CallType
<1> HIDE DEF c
<1>5. StageOf(c)
  BY <1>2, <1>4, CopyConstants DEF StageOf, Copying, Streaming
<1>6. /\ entry' \in [FilePaths -> Inodes \cup {NoFile}] /\ start' \in [Workers -> StartType]
      /\ \A p \in FilePaths : entry'[p] \in InUse \cup {NoFile}
  BY <1>1, <1>2, EntriesInUse DEF CopyTypes
<1>7. InUse' \subseteq InUse
  BY <1>1, <1>2, <1>4, <1>6, InUseShrinks
<1>8. OnDisk(data') /\ Used' <= Capacity
  BY <1>1, <1>3, <1>7, DiskTakes
<1>9. alone' \in [Workers -> BOOLEAN] /\ \A v \in Workers : alone'[v] => v = w
  BY <1>1, <1>2, AloneMoves
<1>10. ProgressOf(c, start'[w], data')
  BY <1>4, NotStreaming DEF Streaming
<1> QED BY <1>1, <1>4, <1>5, <1>6, <1>8, <1>9, <1>10, StepKeeps

\* What follows the written part of a source in a file that holds it: some more
\* of the source.
Follows(d, a, b, pos, block) ==
    /\ IsPrefix(d, a \o b)
    /\ pos <= Len(b) /\ pos - Len(block) >= 0
    /\ Len(d) = Len(a) + (pos - Len(block))
    /\ \A i \in 1..Len(block) : block[i] = b[pos - Len(block) + i]
WholeIfAll(d, t, a, b, pos, block) ==
    pos = Len(b) /\ Len(t) = Len(block) => d \o t = a \o b
StartOf(t, block) ==
    Len(t) \in 0..Len(block) /\ \A i \in 1..Len(t) : t[i] = block[i]

LEMMA WrittenOn ==
  ASSUME NEW d \in Seq(FileBytes), NEW a \in Seq(FileBytes), NEW b \in Seq(FileBytes), NEW pos \in Nat,
         NEW block \in Seq(FileBytes), NEW t \in Seq(FileBytes),
         Follows(d, a, b, pos, block), StartOf(t, block)
  PROVE  /\ IsPrefix(d \o t, a \o b) /\ Len(d \o t) = Len(d) + Len(t)
         /\ WholeIfAll(d, t, a, b, pos, block)
<1>1. /\ Len(d) \in Nat /\ Len(a) \in Nat /\ Len(b) \in Nat /\ Len(block) \in Nat
      /\ Len(t) \in Nat
  BY LenProperties
<1>2. /\ d \o t \in Seq(FileBytes) /\ Len(d \o t) = Len(d) + Len(t)
      /\ \A i \in 1..Len(d) + Len(t) : (d \o t)[i] = IF i <= Len(d) THEN d[i] ELSE t[i - Len(d)]
  BY ConcatProperties
<1>3. /\ a \o b \in Seq(FileBytes) /\ Len(a \o b) = Len(a) + Len(b)
      /\ \A i \in 1..Len(a) + Len(b) : (a \o b)[i] = IF i <= Len(a) THEN a[i] ELSE b[i - Len(a)]
  BY ConcatProperties
<1>4. Len(d) <= Len(a \o b) /\ \A i \in 1..Len(d) : d[i] = (a \o b)[i]
  BY <1>3, PrefixIs DEF Follows
<1>5. ASSUME NEW i \in 1..Len(d) + Len(t) PROVE (d \o t)[i] = (a \o b)[i]
  <2>1. CASE i <= Len(d)
    <3>1. i \in 1..Len(d)
      BY <1>1, <2>1
    <3> QED BY <1>2, <1>4, <2>1, <3>1
  <2>2. CASE ~(i <= Len(d))
    <3> DEFINE k == i - Len(d)
    <3>1. k \in 1..Len(t) /\ k \in 1..Len(block)
      BY <1>1, <2>2 DEF StartOf
    <3>2. (d \o t)[i] = block[k]
      BY <1>2, <2>2, <3>1 DEF StartOf
    <3>3. block[k] = b[pos - Len(block) + k]
      BY <3>1 DEF Follows
    <3>4. /\ i - Len(a) = pos - Len(block) + k /\ ~(i <= Len(a))
          /\ i \in 1..Len(a) + Len(b)
      BY <1>1, <3>1 DEF Follows
    <3>5. (a \o b)[i] = b[i - Len(a)]
      BY <1>3, <3>4
    <3> QED BY <3>2, <3>3, <3>4, <3>5
  <2> QED BY <2>1, <2>2
<1>6. Len(d) + Len(t) <= Len(a) + Len(b)
  BY <1>1 DEF Follows, StartOf
<1>7. IsPrefix(d \o t, a \o b)
  BY <1>1, <1>2, <1>3, <1>5, <1>6, PrefixIs
<1>8. ASSUME pos = Len(b), Len(t) = Len(block) PROVE d \o t = a \o b
  <2>1. Len(d) + Len(t) = Len(a) + Len(b)
    BY <1>1, <1>8 DEF Follows
  <2> QED BY <1>2, <1>3, <1>5, <2>1, SeqEqual
<1> QED BY <1>2, <1>7, <1>8 DEF WholeIfAll

\* An undisturbed process that is to write has its target end where its block begins.
LEMMA WriterStands ==
  ASSUME CopyInv, NEW w \in Workers, proc[w].at \in {"write", "close"}, alone[w],
         proc[w].in # proc[w].out, ~Failed(proc[w])
  PROVE  /\ Follows(data[proc[w].out], start[w].out, start[w].in, proc[w].pos, proc[w].buffer)
         /\ Position(w) = Len(data[proc[w].out])
<1>1. ProgressOf(proc[w], start[w], data)
  BY DEF CopyInv, Progress
<1>2. /\ IsPrefix(data[proc[w].out], start[w].out \o start[w].in)
      /\ proc[w].op = "append" \/ proc[w].wpos = Len(data[proc[w].out])
      /\ proc[w].pos <= Len(start[w].in)
      /\ Waiting(proc[w], start[w])
      /\ Len(data[proc[w].out]) = Len(start[w].out) + (proc[w].pos - Len(proc[w].buffer))
  BY <1>1 DEF ProgressOf, Streaming, Written
<1> QED BY <1>2 DEF Follows, Waiting, Position

\* The disk takes a whole block or less, and nothing of a shorter one.
TookOf(w) ==
    IF Len(proc[w].buffer) < BlockSize THEN <<>>
    ELSE Fitting(data[proc[w].out], Position(w), proc[w].buffer)
LeftOf(w) == IF Len(proc[w].buffer) < BlockSize THEN proc[w].buffer ELSE <<>>
FailedWrite(w) == Len(proc[w].buffer) = BlockSize /\ Len(TookOf(w)) < BlockSize
AfterWrite(w) == [proc[w] EXCEPT !.wpos = Position(w) + Len(TookOf(w)), !.buffer = LeftOf(w),
                                 !.ret = IF FailedWrite(w) THEN "FILEERROR" ELSE "SUCCESS",
                                 !.at = IF FailedWrite(w) \/ proc[w].eof THEN "close" ELSE "read"]

LEMMA WriteIs ==
  ASSUME NEW w \in Workers, Write(w)
  PROVE  /\ proc[w].at = "write"
         /\ data' = [data EXCEPT ![proc[w].out] = Output(w, TookOf(w))]
         /\ Changed(w, AfterWrite(w))
         /\ entry' = entry /\ start' = start /\ alone' = Alone(w)
BY DEF Write, Output, TookOf, LeftOf, FailedWrite, AfterWrite

\* A short block ends the loop; a whole one goes on, if the disk took it.
LEMMA TookIs ==
  ASSUME CopyInv, NEW w \in Workers, proc[w].at = "write"
  PROVE  /\ \/ /\ Len(proc[w].buffer) < BlockSize /\ proc[w].eof
               /\ TookOf(w) = <<>> /\ LeftOf(w) = proc[w].buffer /\ ~FailedWrite(w)
            \/ /\ Len(proc[w].buffer) = BlockSize /\ ~proc[w].eof
               /\ TookOf(w) = Fitting(data[proc[w].out], Position(w), proc[w].buffer)
               /\ LeftOf(w) = <<>> /\ (FailedWrite(w) <=> Len(TookOf(w)) < BlockSize)
         /\ Position(w) \in Nat /\ TookOf(w) \in Seq(FileBytes) /\ LeftOf(w) \in Seq(FileBytes)
         /\ StartOf(TookOf(w), proc[w].buffer) /\ Len(LeftOf(w)) <= BlockSize
<1>1. CopyTypes /\ proc[w] \in CallType /\ StageOf(proc[w]) /\ FreeBytes \in Nat
  BY FreeIs DEF CopyInv, CopyTypes, CallStages
<1>2. proc[w].buffer \in Seq(FileBytes) /\ Len(proc[w].buffer) \in Nat /\ BlockSize \in Nat
  BY <1>1, LenProperties, CopyConstants DEF CallType
<1>3. /\ Len(proc[w].buffer) <= BlockSize
      /\ proc[w].eof <=> Len(proc[w].buffer) < BlockSize
  BY <1>1 DEF StageOf
<1>4. <<>> \in Seq(FileBytes) /\ Len(<<>>) = 0
  BY EmptySeq
<1>5. CASE Len(proc[w].buffer) < BlockSize
  <2>1. TookOf(w) = <<>> /\ LeftOf(w) = proc[w].buffer
    BY <1>5 DEF TookOf, LeftOf
  <2>2. ~FailedWrite(w)
    BY <1>2, <1>5 DEF FailedWrite
  <2>3. Position(w) \in Nat
    BY <2>1, OutputIs
  <2>4. StartOf(TookOf(w), proc[w].buffer)
    BY <1>2, <1>4, <2>1 DEF StartOf
  <2> QED BY <1>2, <1>3, <1>4, <1>5, <2>1, <2>2, <2>3, <2>4
<1>6. CASE ~(Len(proc[w].buffer) < BlockSize)
  <2> DEFINE t == Fitting(data[proc[w].out], Position(w), proc[w].buffer)
  <2>1. TookOf(w) = t /\ LeftOf(w) = <<>> /\ Len(proc[w].buffer) = BlockSize
    BY <1>2, <1>3, <1>6 DEF TookOf, LeftOf
  <2>2. FailedWrite(w) <=> Len(TookOf(w)) < BlockSize
    BY <2>1 DEF FailedWrite
  <2>3. data[proc[w].out] \in Seq(FileBytes) /\ Position(w) \in Nat
    BY OutputIs
  <2>4. t \in Seq(FileBytes) /\ StartOf(t, proc[w].buffer)
    BY <1>1, <1>2, <2>3, FittingIs DEF StartOf
  <2> HIDE DEF t
  <2>5. TookOf(w) = Fitting(data[proc[w].out], Position(w), proc[w].buffer)
    BY <2>1 DEF t
  <2>6. Len(LeftOf(w)) <= BlockSize
    BY <1>2, <1>4, <2>1
  <2> QED BY <1>3, <1>4, <1>6, <2>1, <2>2, <2>3, <2>4, <2>5, <2>6
<1> QED BY <1>5, <1>6

LEMMA WriteProgress ==
  ASSUME CopyInv, NEW w \in Workers, Write(w), alone[w]
  PROVE  ProgressOf(AfterWrite(w), start[w], data')
<1> DEFINE o == proc[w].out
           d == data[o]
           t == TookOf(w)
           c == AfterWrite(w)
           s == start[w]
<1>1. proc[w].at = "write" /\ data' = [data EXCEPT ![o] = Output(w, t)]
  BY WriteIs
<1>2. CopyTypes /\ proc[w] \in CallType /\ StageOf(proc[w])
  BY DEF CopyInv, CopyTypes, CallStages
<1>3. o \in Inodes /\ proc[w].in \in Inodes
  BY <1>1, <1>2 DEF StageOf, Streaming
<1>4. d \in Seq(FileBytes) /\ Len(d) \in Nat /\ data \in [Inodes -> Seq(FileBytes)]
  BY <1>2, <1>3, LenProperties DEF CopyTypes, OnDisk
<1>5. /\ s.in \in Seq(FileBytes) /\ s.out \in Seq(FileBytes) /\ Len(s.out) \in Nat
      /\ proc[w].buffer \in Seq(FileBytes) /\ proc[w].pos \in Nat
      /\ Len(proc[w].buffer) \in Nat /\ Len(s.in) \in Nat
  BY <1>2, LenProperties DEF CopyTypes, StartType, CallType
<1>6. /\ c.in = proc[w].in /\ c.out = o /\ c.op = proc[w].op /\ c.pos = proc[w].pos
      /\ c.wpos = Position(w) + Len(t) /\ c.buffer = LeftOf(w)
      /\ c.ret = (IF FailedWrite(w) THEN "FILEERROR" ELSE "SUCCESS")
      /\ c.at = (IF FailedWrite(w) \/ proc[w].eof THEN "close" ELSE "read")
  BY <1>2 DEF AfterWrite, CallType
<1> SUFFICES ASSUME proc[w].in # o PROVE ProgressOf(c, s, data')
  BY <1>6 DEF ProgressOf
<1>7. ProgressOf(proc[w], s, data) /\ ~Failed(proc[w])
  BY <1>1 DEF CopyInv, Progress, Failed
<1>8. /\ data[proc[w].in] = s.in /\ Waiting(proc[w], s)
      /\ proc[w].eof => AtEnd(proc[w], s)
  BY <1>1, <1>7 DEF ProgressOf, Streaming, Ended
<1>9. Follows(d, s.out, s.in, proc[w].pos, proc[w].buffer) /\ Position(w) = Len(d)
  BY <1>1, <1>7, WriterStands
<1>10. t \in Seq(FileBytes) /\ StartOf(t, proc[w].buffer) /\ Len(t) \in Nat
  BY <1>1, TookIs, LenProperties
<1>11. Output(w, t) = d \o t
  <2> HIDE DEF t, d
  <2>1. Output(w, t) = Overwrite(d, Len(d), t)
    BY <1>9 DEF Output, d
  <2> QED BY <1>4, <1>10, <2>1, AppendedIs
<1>12. data'[c.in] = s.in /\ data'[c.out] = d \o t
  <2> HIDE DEF t, d, c, s, o
  <2> QED BY <1>1, <1>3, <1>4, <1>6, <1>8, <1>11
<1> HIDE DEF d, t, c, s, o
<1>13. IsPrefix(d \o t, s.out \o s.in) /\ Len(d \o t) = Len(d) + Len(t)
  <2> DEFINE a == s.out
             b == s.in
             pos == proc[w].pos
             block == proc[w].buffer
  <2>1. /\ d \in Seq(FileBytes) /\ a \in Seq(FileBytes) /\ b \in Seq(FileBytes) /\ pos \in Nat
        /\ block \in Seq(FileBytes) /\ t \in Seq(FileBytes)
        /\ Follows(d, a, b, pos, block) /\ StartOf(t, block)
    BY <1>4, <1>5, <1>9, <1>10
  <2> HIDE DEF a, b, pos, block
  <2>2. IsPrefix(d \o t, a \o b) /\ Len(d \o t) = Len(d) + Len(t)
    BY ONLY <2>1, WrittenOn
  <2> QED BY <2>2 DEF a, b
<1>14. c.wpos = Len(d \o t)
  BY <1>6, <1>9, <1>13
<1>15. /\ c.pos <= Len(s.in) /\ proc[w].pos - Len(proc[w].buffer) >= 0
       /\ Len(d) = Len(s.out) + (proc[w].pos - Len(proc[w].buffer))
  BY <1>6, <1>9 DEF Follows
<1>16. CASE /\ Len(proc[w].buffer) < BlockSize /\ proc[w].eof
            /\ t = <<>> /\ LeftOf(w) = proc[w].buffer /\ ~FailedWrite(w)
  <2>1. c.at = "close" /\ c.ret = "SUCCESS" /\ c.buffer = proc[w].buffer /\ Len(t) = 0
    BY <1>6, <1>16, EmptySeq
  <2>2. Waiting(c, s) /\ AtEnd(c, s)
    BY <1>6, <1>8, <1>16, <2>1 DEF Waiting, AtEnd
  <2>3. Len(d \o t) = Len(s.out) + Written(c, s)
    <3>1. Written(c, s) = proc[w].pos - Len(proc[w].buffer)
      BY <1>6, <2>1 DEF Written
    <3>2. Len(d \o t) = Len(d)
      BY <1>4, <1>13, <2>1
    <3> QED BY <1>15, <3>1, <3>2
  <2> QED BY <1>12, <1>13, <1>14, <1>15, <2>2, <2>3 DEF ProgressOf
<1>17. CASE /\ Len(proc[w].buffer) = BlockSize /\ ~proc[w].eof
            /\ LeftOf(w) = <<>> /\ (FailedWrite(w) <=> Len(t) < BlockSize)
  <2>1. CASE FailedWrite(w)
    <3>1. Failed(c) /\ ~Ended(c)
      BY <1>6, <2>1 DEF Failed, Ended
    <3> QED BY <1>12, <1>13, <1>14, <1>15, <3>1 DEF ProgressOf
  <2>2. CASE ~FailedWrite(w)
    <3>1. c.at = "read" /\ ~Ended(c)
      BY <1>6, <1>17, <2>2 DEF Ended
    <3>2. Len(t) = BlockSize
      BY <1>10, <1>17, <2>2, CopyConstants DEF StartOf
    <3>3. Len(d \o t) = Len(s.out) + Written(c, s)
      <4>1. Written(c, s) = proc[w].pos
        BY <1>6, <3>1 DEF Written
      <4> QED BY <1>4, <1>5, <1>13, <1>15, <1>17, <3>2, <4>1
    <3> QED BY <1>12, <1>13, <1>14, <1>15, <3>1, <3>3 DEF ProgressOf
  <2> QED BY <2>1, <2>2
<1>18. \/ /\ Len(proc[w].buffer) < BlockSize /\ proc[w].eof
          /\ t = <<>> /\ LeftOf(w) = proc[w].buffer /\ ~FailedWrite(w)
       \/ /\ Len(proc[w].buffer) = BlockSize /\ ~proc[w].eof
          /\ LeftOf(w) = <<>> /\ (FailedWrite(w) <=> Len(t) < BlockSize)
  BY <1>1, TookIs DEF t
<1> QED BY <1>16, <1>17, <1>18

LEMMA WriteStep ==
  ASSUME CopyInv, NEW w \in Workers, Write(w)
  PROVE  CopyInv'
<1> DEFINE o == proc[w].out
           x == Output(w, TookOf(w))
           c == AfterWrite(w)
<1>1. /\ proc[w].at = "write" /\ Changed(w, c) /\ data' = [data EXCEPT ![o] = x]
      /\ entry' = entry /\ start' = start /\ alone' = Alone(w)
  BY WriteIs
<1>2. CopyTypes /\ proc[w] \in CallType /\ StageOf(proc[w])
  BY DEF CopyInv, CopyTypes, CallStages
<1>3. /\ TookOf(w) = <<>> \/ TookOf(w) = Fitting(data[o], Position(w), proc[w].buffer)
      /\ Position(w) \in Nat /\ TookOf(w) \in Seq(FileBytes)
      /\ LeftOf(w) \in Seq(FileBytes) /\ Len(LeftOf(w)) <= BlockSize
  BY <1>1, TookIs
<1>4. /\ o \in InUse /\ x \in Seq(FileBytes)
      /\ Len(data[o]) <= Len(x) /\ Len(x) <= Len(data[o]) + FreeBytes
  BY <1>1, <1>3, OutputIs
<1> HIDE DEF x, o
<1>5. c \in CallType
  <2> DEFINE n == Position(w) + Len(TookOf(w))
             r == IF FailedWrite(w) THEN "FILEERROR" ELSE "SUCCESS"
             at == IF FailedWrite(w) \/ proc[w].eof THEN "close" ELSE "read"
  <2>1. n \in Nat
    BY <1>3, LenProperties
  <2>2. r \in Statuses /\ at \in Copying
    BY DEF Statuses, Copying
  <2>3. c = [proc[w] EXCEPT !.wpos = n, !.buffer = LeftOf(w), !.ret = r, !.at = at]
    BY DEF AfterWrite
  <2> HIDE DEF n, r, at, c
  <2> QED BY <1>2, <1>3, <2>1, <2>2, <2>3 DEF CallType
<1>6. /\ c.in = proc[w].in /\ c.out = proc[w].out /\ c.op = proc[w].op
      /\ c.src = proc[w].src /\ c.dst = proc[w].dst /\ c.buffer = LeftOf(w)
      /\ c.at \in {"close", "read"}
  BY <1>2 DEF AfterWrite, CallType
<1>7. alone[w] => ProgressOf(c, start[w], data')
  BY WriteProgress
<1> HIDE DEF c
<1>8. StageOf(c)
  <2>1. Len(c.buffer) <= BlockSize /\ c.at # "write"
    BY <1>3, <1>6
  <2> QED BY <1>1, <1>2, <1>6, <2>1 DEF StageOf, Copying, Streaming
<1>9. /\ entry' \in [FilePaths -> Inodes \cup {NoFile}] /\ start' \in [Workers -> StartType]
      /\ \A p \in FilePaths : entry'[p] \in InUse \cup {NoFile}
  BY <1>1, <1>2, EntriesInUse DEF CopyTypes
<1>10. c.in \in InUse \cup {NoFile} /\ c.out \in InUse \cup {NoFile}
  BY <1>1, <1>2, <1>6, FilesInUse
<1>11. InUse' \subseteq InUse
  BY <1>1, <1>2, <1>5, <1>9, <1>10, InUseShrinks
<1>12. OnDisk(data') /\ Used' <= Capacity
  BY <1>1, <1>4, <1>11, DiskTakes
<1>13. /\ alone' \in [Workers -> BOOLEAN] /\ \A v \in Workers : alone'[v] => v = w
       /\ alone'[w] => alone[w]
  BY <1>1, <1>2, AloneMoves
<1>14. alone'[w] => ProgressOf(c, start'[w], data')
  BY <1>1, <1>7, <1>13
<1> QED BY <1>1, <1>5, <1>8, <1>9, <1>12, <1>13, <1>14, StepKeeps

-----------------------------------------------------------------------------
(* Every behaviour.                                                         *)

LEMMA CopyStart == CopyInit => CopyInv
<1> SUFFICES ASSUME CopyInit PROVE CopyInv
  OBVIOUS
<1>1. \A w \in Workers : proc[w] = NoCall
  BY DEF CopyInit
<1>2. NoCall \in CallType /\ StageOf(NoCall) /\ NoCall.at = "idle"
  BY NoCallIs
<1>3. CopyTypes
  <2>1. entry \in [FilePaths -> Inodes \cup {NoFile}]
    BY CopyAssumption DEF CopyInit
  <2>2. OnDisk(data)
    <3>1. Contents \in [Inodes -> Seq(UNION {Range(Contents[f]) : f \in Inodes})]
      BY CopyAssumption
    <3> DEFINE B == UNION {Range(Contents[f]) : f \in Inodes}
    <3>2. \A f \in Inodes : Contents[f] \in Seq(B)
      BY <3>1
    <3> HIDE DEF B
    <3>3. B \subseteq FileBytes
      BY DEF B, FileBytes
    <3>4. \A f \in Inodes : Contents[f] \in Seq(FileBytes)
      BY <3>2, <3>3, SeqMonotonic
    <3>5. data = Contents /\ DOMAIN Contents = Inodes
      BY <3>1 DEF CopyInit
    <3>6. Contents = [f \in Inodes |-> Contents[f]]
      BY <3>1
    <3> QED BY <3>4, <3>5, <3>6 DEF OnDisk
  <2>3. proc \in [Workers -> CallType]
    BY <1>2 DEF CopyInit
  <2>4. start \in [Workers -> StartType] /\ alone \in [Workers -> BOOLEAN]
    BY EmptySeq DEF CopyInit, StartType
  <2> QED BY <2>1, <2>2, <2>3, <2>4 DEF CopyTypes
<1>4. CallStages /\ Progress
  BY <1>1, <1>2 DEF CopyInit, CallStages, Progress
<1>5. Used <= Capacity
  <2> DEFINE S == {f \in Inodes : \E p \in FilePaths : Entries[p] = f}
  <2>1. InUse = S
    BY <1>1, <1>2 DEF InUse, Busy, CopyInit
  <2>2. Cardinality(Stored(Contents, S)) <= Capacity
    BY CopyAssumption
  <2>3. data = Contents
    BY DEF CopyInit
  <2> QED BY <2>1, <2>2, <2>3 DEF Used
<1> QED BY <1>3, <1>4, <1>5 DEF CopyInv

LEMMA CopyStep == CopyInv /\ [CopyNext]_copyVars => CopyInv'
<1> SUFFICES ASSUME CopyInv, [CopyNext]_copyVars PROVE CopyInv'
  OBVIOUS
<1>1. CASE UNCHANGED copyVars
  BY <1>1 DEF copyVars, CopyInv, CopyTypes, OnDisk, CallStages, Progress, Used, InUse, Busy
<1>2. ASSUME NEW w \in Workers, Steps(w) PROVE CopyInv'
  BY <1>2, OpenSourceStep, OpenTargetStep, ReadStep, WriteStep, CloseStep, MoveChecksStep,
     MoveRenamesStep DEF Steps
<1>3. ASSUME NEW w \in Workers, NEW c \in Calls, Call(w, c) PROVE CopyInv'
  BY <1>3, CallStep
<1> QED BY <1>1, <1>2, <1>3 DEF CopyNext

-----------------------------------------------------------------------------
(* What holds of the calls.                                                 *)

LEMMA CopyStatesHold == CopyInv => CopyTypeOK /\ PartIsPrefix
<1> SUFFICES ASSUME CopyInv PROVE CopyTypeOK /\ PartIsPrefix
  OBVIOUS
<1>1. CopyTypes /\ CallStages /\ Progress
  BY DEF CopyInv
<1>2. FreeBytes >= 0
  BY FreeIs
<1>3. CopyTypeOK
  <2>1. ASSUME NEW w \in Workers
        PROVE  /\ proc[w].ret \in Statuses /\ Len(proc[w].buffer) <= BlockSize
               /\ proc[w].calls \in 0..MaxCalls
    BY <1>1 DEF CopyTypes, CallType, CallStages, StageOf
  <2> QED BY <1>1, <1>2, <2>1 DEF CopyTypeOK, CopyTypes
<1>4. PartIsPrefix
  <2> SUFFICES ASSUME NEW w \in Workers, Busy(w), proc[w].out # NoFile, alone[w], Distinct(w)
               PROVE  IsPrefix(data[proc[w].out], Wanted(w))
    BY DEF PartIsPrefix
  <2>1. proc[w] \in CallType /\ StageOf(proc[w]) /\ ProgressOf(proc[w], start[w], data)
    BY <1>1 DEF CopyTypes, CallStages, Progress
  <2>2. proc[w].at \in Streaming
    BY <2>1 DEF CallType, StageOf
  <2> QED BY <2>1, <2>2 DEF ProgressOf, Distinct, Wanted
<1> QED BY <1>3, <1>4

\* Whoever does not take a step keeps its call.
LEMMA OneMoves ==
  ASSUME CopyInv, NEW w \in Workers, Steps(w) \/ \E c \in Calls : Call(w, c)
  PROVE  \A v \in Workers : v # w => proc'[v] = proc[v]
<1>1. proc \in [Workers -> CallType]
  BY DEF CopyInv, CopyTypes
<1>2. CASE \E c \in Calls : Call(w, c)
  BY <1>1, <1>2 DEF Call, Changed, Begin
<1>3. CASE Steps(w)
  <2>1. \E c : Changed(w, c)
    BY <1>3, WriteIs, OpenTargetIs
       DEF Steps, OpenSource, Read, Close, MoveChecks, MoveRenames, Fail
  <2> QED BY <1>1, <2>1 DEF Changed
<1> QED BY <1>2, <1>3

\* A call whose streams are closed returns with the status it had.
LEMMA CopyWholeStep ==
  ASSUME CopyInv, [CopyNext]_copyVars, NEW w \in Workers,
         Returned(w), proc'[w].ret = "SUCCESS", alone[w], Distinct(w)
  PROVE  Arrived(w)
<1> DEFINE o == proc[w].out
           d == data[o]
           s == start[w]
           b == proc[w].buffer
           t == Fitting(d, Position(w), b)
<1>1. CopyTypes /\ proc[w] \in CallType /\ StageOf(proc[w]) /\ proc[w].at = "close"
  BY DEF CopyInv, CopyTypes, CallStages, Returned
<1>2. Close(w)
  <2>1. ~UNCHANGED copyVars
    BY DEF Returned, copyVars
  <2>2. PICK v \in Workers : Steps(v) \/ \E c \in Calls : Call(v, c)
    BY <2>1 DEF CopyNext
  <2>3. v = w
    BY <2>2, OneMoves DEF Returned
  <2>4. Steps(w)
    BY <1>1, <2>2, <2>3 DEF Call, Busy
  <2> QED BY <1>1, <2>4 DEF Steps, OpenSource, OpenTarget, Read, Write, MoveChecks, MoveRenames
<1>3. /\ data' = [data EXCEPT ![o] = Output(w, t)] /\ proc[w].ret = "SUCCESS"
  <2>1. Changed(w, [proc[w] EXCEPT !.at = "idle", !.ret = proc[w].ret, !.in = NoFile, !.out = NoFile])
    BY <1>2 DEF Close, Fail
  <2>2. proc'[w].ret = proc[w].ret
    BY <1>1, <2>1 DEF Changed, CopyTypes, CallType
  <2> QED BY <1>2, <2>2 DEF Close, Output
<1>4. o \in Inodes
  BY <1>1 DEF StageOf, Streaming
<1>5. ~Failed(proc[w]) /\ proc[w].in # o
  BY <1>3 DEF Failed, Distinct
<1>6. Follows(d, s.out, s.in, proc[w].pos, b) /\ Position(w) = Len(d)
  BY <1>1, <1>5, WriterStands
<1>7. proc[w].pos = Len(s.in) /\ Len(b) < BlockSize
  <2>1. ProgressOf(proc[w], s, data)
    BY DEF CopyInv, Progress
  <2>2. Ended(proc[w]) /\ proc[w].at \in Streaming
    BY <1>1, <1>3 DEF Ended, Streaming
  <2> QED BY <1>5, <2>1, <2>2 DEF ProgressOf, AtEnd
<1>8. /\ s.in \in Seq(FileBytes) /\ s.out \in Seq(FileBytes) /\ d \in Seq(FileBytes) /\ b \in Seq(FileBytes)
      /\ proc[w].pos \in Nat /\ FreeBytes \in Nat /\ data \in [Inodes -> Seq(FileBytes)]
  BY <1>1, <1>4, FreeIs DEF CopyTypes, OnDisk, StartType, CallType
<1>9. /\ Len(s.in) \in Nat /\ Len(s.out) \in Nat /\ Len(d) \in Nat /\ Len(b) \in Nat
  BY <1>8, LenProperties
<1>10. /\ t \in Seq(FileBytes) /\ StartOf(t, b)
       /\ Len(t) < Len(b) => Len(t) = FreeBytes
  <2> DEFINE p == Position(w)
  <2>1. p \in Nat /\ p = Len(d)
    BY <1>6, <1>9
  <2> HIDE DEF p, d, b
  <2>2. t = Fitting(d, p, b)
    BY DEF p
  <2> HIDE DEF t
  <2>3. /\ Fitting(d, p, b) \in Seq(FileBytes) /\ Len(Fitting(d, p, b)) \in 0..Len(b)
        /\ \A i \in 1..Len(Fitting(d, p, b)) : Fitting(d, p, b)[i] = b[i]
        /\ p = Len(d) /\ Len(Fitting(d, p, b)) < Len(b) => Len(Fitting(d, p, b)) = FreeBytes
    BY <1>8, <2>1, FittingIs
  <2> QED BY <2>1, <2>2, <2>3 DEF StartOf
<1>11. data'[o] = d \o t
  <2> HIDE DEF t, d, o
  <2>1. Output(w, t) = Overwrite(d, Len(d), t)
    BY <1>6 DEF Output, d, o
  <2> QED BY <1>3, <1>4, <1>8, <1>10, <2>1, AppendedIs
<1> DEFINE pos == proc[w].pos
           x == s.out
           y == s.in
<1>12. /\ IsPrefix(d \o t, x \o y) /\ Len(d \o t) = Len(d) + Len(t)
       /\ Len(t) = Len(b) => d \o t = x \o y
  <2>1. /\ d \in Seq(FileBytes) /\ x \in Seq(FileBytes) /\ y \in Seq(FileBytes) /\ pos \in Nat
        /\ b \in Seq(FileBytes) /\ t \in Seq(FileBytes)
        /\ Follows(d, x, y, pos, b) /\ StartOf(t, b)
    BY <1>6, <1>8, <1>10
  <2> HIDE DEF d, t, b, x, y, pos
  <2>2. IsPrefix(d \o t, x \o y) /\ Len(d \o t) = Len(d) + Len(t)
    BY ONLY <2>1, WrittenOn
  <2>3. WholeIfAll(d, t, x, y, pos, b)
    BY ONLY <2>1, WrittenOn
  <2> QED BY <1>7, <2>2, <2>3 DEF WholeIfAll, pos, y
<1>13. Wanted(w) = x \o y
  BY DEF Wanted
<1>14. Len(x \o y) = Len(x) + Len(y) /\ Len(d) = Len(x) + (Len(y) - Len(b))
  <2>1. Len(x \o y) = Len(x) + Len(y)
    BY <1>8, ConcatProperties
  <2> QED BY <1>6, <1>7, <2>1 DEF Follows
<1>15. Len(t) \in 0..Len(b) /\ Len(t) \in Nat
  BY <1>9, <1>10 DEF StartOf
<1> HIDE DEF t, d, b, x, y, pos, o
<1>16. CASE Len(t) = Len(b)
  BY <1>11, <1>12, <1>13, <1>16 DEF Arrived, o
<1>17. CASE Len(t) < Len(b)
  <2>1. Len(t) = FreeBytes
    BY <1>10, <1>17
  <2>2. Len(x) \in Nat /\ Len(y) \in Nat
    BY <1>9 DEF x, y
  <2>3. Len(x \o y) - Len(d \o t) < BlockSize /\ Len(d \o t) - Len(d) = FreeBytes
    BY <1>7, <1>9, <1>12, <1>14, <1>15, <2>1, <2>2, CopyConstants
  <2> QED BY <1>11, <1>12, <1>13, <2>3 DEF Arrived, d, o
<1>18. Len(t) = Len(b) \/ Len(t) < Len(b)
  BY <1>9, <1>15 DEF b
<1> QED BY <1>16, <1>17, <1>18

\* What a concatenation does to the files that have names.
LEMMA AppendKeepsStep ==
  ASSUME CopyInv, [CopyNext]_copyVars, NEW w \in Workers, proc[w].op = "append", Busy(w),
         proc'[w] # proc[w], NEW p \in FilePaths, entry[p] # NoFile
  PROVE  entry'[p] = entry[p] /\ IsPrefix(data[entry[p]], data'[entry[p]])
<1>1. CopyTypes /\ proc[w] \in CallType /\ StageOf(proc[w])
  BY DEF CopyInv, CopyTypes, CallStages
<1>2. Steps(w)
  <2>1. PICK v \in Workers : Steps(v) \/ \E c \in Calls : Call(v, c)
    BY DEF CopyNext, copyVars
  <2>2. v = w
    BY <2>1, OneMoves
  <2> QED BY <2>1, <2>2 DEF Call
<1> DEFINE f == entry[p]
<1>3. f \in Inodes /\ f \in InUse /\ data[f] \in Seq(FileBytes) /\ data \in [Inodes -> Seq(FileBytes)]
  <2>1. f \in InUse
    BY <1>1, EntriesInUse
  <2> QED BY <1>1, <2>1, InUseIs DEF CopyTypes, OnDisk
<1>4. IsPrefix(data[f], data[f])
  BY <1>3, PrefixOfItself
<1>5. ASSUME entry' = entry, data' = data PROVE entry'[p] = f /\ IsPrefix(data[f], data'[f])
  BY <1>4, <1>5
<1>6. CASE OpenTarget(w)
  <2> DEFINE o == TargetOf(w)
             b == proc[w].dst
  <2>1. /\ proc[w].at = "openTarget" /\ entry' = [entry EXCEPT ![b] = o]
        /\ data' = [data EXCEPT ![o] = KeptOf(w)]
    BY <1>6, OpenTargetIs
  <2>2. /\ entry[b] = NoFile => o \notin InUse
        /\ entry[b] # NoFile => o = entry[b] /\ KeptOf(w) = data[o]
    BY <2>1, TargetIs DEF KeptOf
  <2> HIDE DEF o, b
  <2>3. entry'[p] = f
    <3>1. entry \in [FilePaths -> Inodes \cup {NoFile}]
      BY <1>1 DEF CopyTypes
    <3>2. CASE p = b
      BY <2>1, <2>2, <3>1, <3>2
    <3>3. CASE p # b
      BY <2>1, <3>1, <3>3
    <3> QED BY <3>2, <3>3
  <2> HIDE DEF f
  <2>4. data'[f] = data[f]
    <3>1. CASE f = o
      BY <1>3, <2>1, <2>2, <3>1
    <3>2. CASE f # o
      BY <1>3, <2>1, <3>2
    <3> QED BY <3>1, <3>2
  <2> QED BY <1>4, <2>3, <2>4 DEF f
<1>7. ASSUME NEW t, t = <<>> \/ t = Fitting(data[proc[w].out], Position(w), proc[w].buffer),
             proc[w].at \in {"write", "close"},
             entry' = entry, data' = [data EXCEPT ![proc[w].out] = Output(w, t)]
      PROVE  entry'[p] = f /\ IsPrefix(data[f], data'[f])
  <2> DEFINE o == proc[w].out
             d == data[o]
  <2>1. o \in Inodes /\ d \in Seq(FileBytes) /\ t \in Seq(FileBytes)
    BY <1>7, OutputIs, InUseIs
  <2>2. Output(w, t) = Overwrite(d, Len(d), t)
    BY DEF Output, Position
  <2>3. IsPrefix(d, Output(w, t))
    <3> HIDE DEF d
    <3> QED BY <2>1, <2>2, AppendedIs
  <2>4. CASE f = o
    <3>1. data'[f] = Output(w, t) /\ data[f] = d
      BY <1>3, <1>7, <2>4
    <3> QED BY <1>7, <2>3, <3>1
  <2>5. CASE f # o
    <3>1. data'[f] = data[f]
      BY <1>3, <1>7, <2>5
    <3> QED BY <1>4, <1>7, <3>1
  <2> QED BY <2>4, <2>5
<1>8. CASE Write(w)
  <2>1. /\ proc[w].at = "write" /\ entry' = entry
        /\ data' = [data EXCEPT ![proc[w].out] = Output(w, TookOf(w))]
    BY <1>8, WriteIs
  <2>2. TookOf(w) = <<>> \/ TookOf(w) = Fitting(data[proc[w].out], Position(w), proc[w].buffer)
    BY DEF TookOf
  <2> QED BY <1>7, <2>1, <2>2
<1>9. CASE Close(w)
  <2> DEFINE t == Fitting(data[proc[w].out], Position(w), proc[w].buffer)
  <2>1. /\ proc[w].at = "close" /\ entry' = entry
        /\ data' = [data EXCEPT ![proc[w].out] = Output(w, t)]
    BY <1>9 DEF Close, Output
  <2>2. t = Fitting(data[proc[w].out], Position(w), proc[w].buffer)
    OBVIOUS
  <2> HIDE DEF t
  <2> QED BY <1>7, <2>1, <2>2
<1>10. CASE OpenSource(w) \/ Read(w)
  BY <1>5, <1>10 DEF OpenSource, Read
<1>11. ~MoveChecks(w) /\ ~MoveRenames(w)
  BY <1>1 DEF StageOf, MoveChecks, MoveRenames
<1> QED BY <1>2, <1>6, <1>8, <1>9, <1>10, <1>11 DEF Steps

\* Whatever the files hold, however long the buffer is, however large the disk
\* and however many processes copy, concatenate and move files at a time, a copy
\* that succeeds and that nobody disturbed is whole but for what of the last
\* block the disk did not take as it became full; one that fails is a beginning,
\* and a concatenation keeps what was there.  That each call ends, which depends
\* on how the processes are scheduled, is assumed.
THEOREM CopiesStaySafe == CopyInit /\ [][CopyNext]_copyVars => (CallsEnd => CopiesAreSafe)
<1>1. CopyInit => CopyInv
  BY CopyStart
<1>2. CopyInv /\ [CopyNext]_copyVars => CopyInv'
  BY CopyStep
<1>3. CopyInv => CopyTypeOK /\ PartIsPrefix
  BY CopyStatesHold
<1>4. CopyInv /\ [CopyNext]_copyVars
        => [\A w \in Workers :
              Returned(w) /\ proc'[w].ret = "SUCCESS" /\ alone[w] /\ Distinct(w) => Arrived(w)]_copyVars
  BY CopyWholeStep
<1>5. CopyInv /\ [CopyNext]_copyVars
        => [\A w \in Workers : proc[w].op = "append" /\ Busy(w) /\ proc'[w] # proc[w] =>
              \A p \in FilePaths : entry[p] # NoFile =>
                  entry'[p] = entry[p] /\ IsPrefix(data[entry[p]], data'[entry[p]])]_copyVars
  BY AppendKeepsStep
<1> QED BY <1>1, <1>2, <1>3, <1>4, <1>5, PTL DEF CopiesAreSafe, CopyIsWhole, AppendKeeps

-----------------------------------------------------------------------------
(* The tree of files, for any tree, any number of processes that make       *)
(* directories and any steps of other programs, as long as no link leads to *)
(* where a directory is or will be made.                                    *)

\* Where directories are, or will be made.
Directories ==
    {<<>>} \cup (UNION {{p \in DOMAIN t : t[p].kind = "dir"} : t \in Trees})
           \cup (UNION {{SubSeq(p, 1, i) : i \in 1..Len(p)} : p \in ToMake})

NoLinksToDirectories ==
    \A t \in Trees : \A p \in DOMAIN t : t[p].kind = "link" => t[p].to \notin Directories

\* What is at path p of a tree t, and what a directory d of it holds.
KindIn(t, p) == IF p = <<>> THEN "dir" ELSE IF p \in DOMAIN t THEN t[p].kind ELSE "none"
HeldIn(t, d) == {n \in Names : KindIn(t, Append(d, n)) # "none"}

TreeStands(t) ==
    /\ DOMAIN t \subseteq Seq(Names) /\ <<>> \notin DOMAIN t
    /\ \A p \in DOMAIN t :
         /\ t[p].kind \in {"file", "dir", "link"} /\ t[p].to \in Seq(Names)
         /\ Len(p) <= MaxDepth /\ KindIn(t, Front(p)) = "dir"
         /\ t[p].kind = "dir" => p \in Directories
         /\ t[p].kind = "link" => t[p].to \notin Directories

LEMMA NumbersHaveALeast ==
  ASSUME NEW set \in SUBSET Nat, set # {}
  PROVE  \E least \in set : \A x \in set : least <= x
<1>1. PICK least \in set : \A x \in set : ~(<<x, least>> \in OpToRel(<, Nat))
  BY NatLessThanWellFounded, WFMin
<1>2. ASSUME NEW x \in set PROVE least <= x
  <2>1. x \in Nat /\ least \in Nat /\ ~(x < least)
    BY <1>1 DEF OpToRel
  <2> QED BY <2>1
<1> QED BY <1>2

LEMMA UpToAll ==
  ASSUME NEW set \in SUBSET Nat, 0 \in set, \A n \in set : n + 1 \in set
  PROVE  set = Nat
<1>1. SUFFICES ASSUME Nat \ set # {} PROVE FALSE
  OBVIOUS
<1>2. PICK least \in Nat \ set : \A x \in Nat \ set : least <= x
  <2>1. Nat \ set \in SUBSET Nat
    OBVIOUS
  <2> QED BY <1>1, <2>1, NumbersHaveALeast
<1>3. least # 0
  BY <1>2
<1>4. least - 1 \in Nat /\ least = (least - 1) + 1 /\ ~(least <= least - 1)
  BY <1>2, <1>3
<1> QED BY <1>2, <1>4

-----------------------------------------------------------------------------
(* Paths.                                                                    *)

LEMMA PathGrows ==
  ASSUME NEW p \in Seq(Names), NEW n \in Names
  PROVE  /\ Append(p, n) \in Seq(Names) /\ Append(p, n) # <<>>
         /\ Len(Append(p, n)) = Len(p) + 1
         /\ Front(Append(p, n)) = p /\ Last(Append(p, n)) = n
<1>1. /\ Append(p, n) \in Seq(Names) /\ Append(p, n) # <<>>
      /\ Len(Append(p, n)) = Len(p) + 1 /\ Append(p, n)[Len(p) + 1] = n
      /\ \A i \in 1..Len(p) : Append(p, n)[i] = p[i]
  BY AppendProperties
<1>2. Len(p) \in Nat
  BY LenProperties
<1> DEFINE q == Append(p, n)
<1> HIDE DEF q
<1>3. SubSeq(q, 1, Len(p)) = p
  <2>1. q \in Seq(Names) /\ Len(q) = Len(p) + 1 /\ \A i \in 1..Len(p) : q[i] = p[i]
    BY <1>1 DEF q
  <2>2. /\ SubSeq(q, 1, Len(p)) \in Seq(Names) /\ Len(SubSeq(q, 1, Len(p))) = Len(p)
        /\ \A i \in 1..Len(p) : SubSeq(q, 1, Len(p))[i] = q[i]
    BY <1>2, <2>1, SubSeqProperties
  <2> QED BY <2>1, <2>2, SeqEqual
<1>4. Front(q) = p
  <2>1. Len(q) - 1 = Len(p)
    BY <1>1, <1>2 DEF q
  <2> QED BY <1>3, <2>1 DEF Front
<1> QED BY <1>1, <1>4 DEF Last, q

LEMMA PathParts ==
  ASSUME NEW p \in Seq(Names), p # <<>>
  PROVE  /\ Front(p) \in Seq(Names) /\ Last(p) \in Names /\ p = Append(Front(p), Last(p))
         /\ Len(p) = Len(Front(p)) + 1
<1>1. PICK q \in Seq(Names), n \in Names : p = Append(q, n)
  BY SequenceEmptyOrAppend
<1> QED BY <1>1, PathGrows

\* The beginnings of a path.
LEMMA BeginningGrows ==
  ASSUME NEW p \in Seq(Names), NEW i \in 1..Len(p)
  PROVE  /\ SubSeq(p, 1, i) \in Seq(Names) /\ Len(SubSeq(p, 1, i)) = i
         /\ SubSeq(p, 1, i) # <<>> /\ p[i] \in Names
         /\ SubSeq(p, 1, i - 1) \in Seq(Names) /\ Len(SubSeq(p, 1, i - 1)) = i - 1
         /\ SubSeq(p, 1, i) = Append(SubSeq(p, 1, i - 1), p[i])
<1>1. Len(p) \in Nat /\ p[i] \in Names
  BY LenProperties, ElementOfSeq
<1>2. /\ SubSeq(p, 1, i) \in Seq(Names) /\ Len(SubSeq(p, 1, i)) = i
      /\ \A j \in 1..i : SubSeq(p, 1, i)[j] = p[j]
  BY <1>1, SubSeqProperties
<1>3. /\ SubSeq(p, 1, i - 1) \in Seq(Names) /\ Len(SubSeq(p, 1, i - 1)) = i - 1
      /\ \A j \in 1..i - 1 : SubSeq(p, 1, i - 1)[j] = p[j]
  BY <1>1, SubSeqProperties
<1> DEFINE b == SubSeq(p, 1, i)
           a == SubSeq(p, 1, i - 1)
           n == p[i]
           c == Append(a, n)
<1>4. c \in Seq(Names) /\ Len(c) = (i - 1) + 1 /\ c[(i - 1) + 1] = n
      /\ \A j \in 1..i - 1 : c[j] = a[j]
  <2>1. a \in Seq(Names) /\ n \in Names /\ Len(a) = i - 1
    BY <1>1, <1>3
  <2> HIDE DEF a, n
  <2> QED BY <2>1, AppendProperties
<1>5. b \in Seq(Names) /\ Len(b) = i /\ \A j \in 1..i : b[j] = p[j]
  BY <1>2
<1>6. \A j \in 1..i - 1 : a[j] = p[j]
  BY <1>3
<1> HIDE DEF a, b, c
<1>7. b = c
  <2>1. Len(b) = Len(c) /\ (i - 1) + 1 = i
    BY <1>4, <1>5
  <2>2. \A j \in 1..Len(b) : b[j] = c[j]
    BY <1>4, <1>5, <1>6, <2>1
  <2> QED BY <1>4, <1>5, <2>1, <2>2, SeqEqual
<1>8. b # <<>>
  BY <1>5
<1> QED BY <1>1, <1>2, <1>3, <1>7, <1>8 DEF a, b, c

LEMMA WholeBeginning ==
  ASSUME NEW p \in Seq(Names)
  PROVE  SubSeq(p, 1, Len(p)) = p /\ SubSeq(p, 1, 0) = <<>>
<1>1. Len(p) \in Nat
  BY LenProperties
<1>2. /\ SubSeq(p, 1, Len(p)) \in Seq(Names) /\ Len(SubSeq(p, 1, Len(p))) = Len(p)
      /\ \A j \in 1..Len(p) : SubSeq(p, 1, Len(p))[j] = p[j]
  BY <1>1, SubSeqProperties
<1>3. SubSeq(p, 1, Len(p)) = p
  BY <1>2, SeqEqual
<1>4. SubSeq(p, 1, 0) \in Seq(Names) /\ Len(SubSeq(p, 1, 0)) = 0
  BY <1>1, SubSeqProperties
<1> QED BY <1>3, <1>4, EmptySeq

-----------------------------------------------------------------------------
(* Where a path leads, when no link leads to a directory: a directory is    *)
(* reached by its own path only.                                             *)

\* What f says of the places that the first i components of p lead to.
Leads(f, p) == f = [i \in 0..Len(p) |-> IF i = 0 THEN {<<>>}
                                        ELSE UNION {After(d, p[i]) : d \in f[i - 1]}]
LeadsTo(f, p, i) == f[i] = IF i = 0 THEN {<<>>} ELSE UNION {After(d, p[i]) : d \in f[i - 1]}
LeadsUpTo(f, p, n) == \A i \in 0..n : LeadsTo(f, p, i)

LEMMA SomeLeads ==
  ASSUME NEW p
  PROVE  \A n \in Nat : \E f : LeadsUpTo(f, p, n)
<1> DEFINE some == {n \in Nat : \E f : LeadsUpTo(f, p, n)}
<1>1. 0 \in some
  <2> DEFINE f == [i \in 0..0 |-> {<<>>}]
  <2>1. LeadsTo(f, p, 0)
    BY DEF LeadsTo
  <2> HIDE DEF f
  <2> QED BY <2>1 DEF LeadsUpTo
<1>2. ASSUME NEW n \in some PROVE n + 1 \in some
  <2>1. PICK f : LeadsUpTo(f, p, n)
    BY <1>2
  <2> DEFINE next == UNION {After(d, p[n + 1]) : d \in f[n]}
             g == [i \in 0..n + 1 |-> IF i <= n THEN f[i] ELSE next]
  <2>2. (\A i \in 0..n : g[i] = f[i]) /\ g[n + 1] = next
    OBVIOUS
  <2> HIDE DEF g
  <2>3. ASSUME NEW i \in 0..n + 1 PROVE LeadsTo(g, p, i)
    <3>1. CASE i <= n
      <4>1. LeadsTo(f, p, i) /\ i \in 0..n
        BY <2>1, <3>1 DEF LeadsUpTo
      <4>2. g[i] = f[i] /\ (i # 0 => g[i - 1] = f[i - 1])
        BY <2>2, <4>1
      <4> QED BY <4>1, <4>2 DEF LeadsTo
    <3>2. CASE i = n + 1
      <4>1. i # 0 /\ i - 1 = n /\ g[i - 1] = f[n]
        BY <2>2, <3>2
      <4> QED BY <2>2, <3>2, <4>1 DEF LeadsTo
    <3> QED BY <3>1, <3>2
  <2> QED BY <2>3 DEF LeadsUpTo
<1> HIDE DEF some
<1>3. some = Nat
  <2>1. some \subseteq Nat
    BY DEF some
  <2> QED BY <1>1, <1>2, <2>1, UpToAll
<1> QED BY <1>3 DEF some

LEMMA ReachedIs ==
  ASSUME NEW p \in Seq(Names)
  PROVE  \E f : LeadsUpTo(f, p, Len(p)) /\ Reached(p) = f[Len(p)]
<1>1. Len(p) \in Nat
  BY LenProperties
<1>2. PICK g : LeadsUpTo(g, p, Len(p))
  BY <1>1, SomeLeads
<1> DEFINE f == [i \in 0..Len(p) |-> g[i]]
<1>3. Leads(f, p)
  <2>1. \A i \in 0..Len(p) : f[i] = g[i]
    OBVIOUS
  <2>2. f = [i \in 0..Len(p) |-> f[i]]
    OBVIOUS
  <2> HIDE DEF f
  <2>3. ASSUME NEW i \in 0..Len(p)
        PROVE  f[i] = IF i = 0 THEN {<<>>} ELSE UNION {After(d, p[i]) : d \in f[i - 1]}
    <3>1. f[i] = g[i] /\ (i # 0 => f[i - 1] = g[i - 1])
      BY <1>1, <2>1
    <3>2. LeadsTo(g, p, i)
      BY <1>2 DEF LeadsUpTo
    <3> QED BY <3>1, <3>2 DEF LeadsTo
  <2> QED BY <2>2, <2>3 DEF Leads
<1> HIDE DEF f
<1> DEFINE upTo == CHOOSE h : Leads(h, p)
<1>4. Leads(upTo, p)
  BY <1>3
<1>5. Reached(p) = upTo[Len(p)]
  BY DEF Reached, Leads
<1> HIDE DEF upTo
<1>6. LeadsUpTo(upTo, p, Len(p))
  BY <1>4 DEF Leads, LeadsUpTo, LeadsTo
<1> QED BY <1>5, <1>6

\* A node that stands in a directory, and one that would.
LEMMA Nested ==
  ASSUME TreeStands(fs), NEW d \in Seq(Names), NEW n \in Names, Kind(Append(d, n)) # "none"
  PROVE  Kind(d) = "dir" /\ Len(d) + 1 <= MaxDepth
<1> DEFINE p == Append(d, n)
<1>1. p # <<>> /\ Front(p) = d /\ Len(p) = Len(d) + 1
  BY PathGrows
<1>2. Kind(p) # "none"
  OBVIOUS
<1> HIDE DEF p
<1>3. p \in DOMAIN fs
  BY <1>1, <1>2 DEF Kind
<1>4. Len(p) <= MaxDepth /\ Kind(Front(p)) = "dir"
  BY <1>3 DEF TreeStands, Kind, KindIn
<1> QED BY <1>1, <1>4

LEMMA DirectoriesLast ==
  ASSUME TreeStands(fs), NEW p, Kind(p) = "dir"
  PROVE  p \in Directories
BY DEF TreeStands, Kind, KindIn, Directories

LEMMA OneComponent ==
  ASSUME TreeStands(fs), NEW d \in Seq(Names), NEW n \in Names
  PROVE  /\ \A e \in After(d, n) :
               e \in Seq(Names) /\ (Kind(e) = "dir" => Kind(d) = "dir" /\ e = Append(d, n))
         /\ Kind(Append(d, n)) = "dir" => Append(d, n) \in After(d, n)
<1>1. n # "." /\ n # ".."
  BY TreeAssumption
<1> DEFINE p == Append(d, n)
<1>2. p \in Seq(Names) /\ p # <<>>
  BY PathGrows
<1>3. After(d, n) = IF Kind(d) # "dir" THEN {}
                    ELSE IF Kind(p) = "link" THEN {to \in {fs[p].to} : Kind(to) # "none"}
                    ELSE {e \in {p} : Kind(e) # "none"}
  BY <1>1 DEF After
<1>4. Kind(p) = "dir" => Kind(d) = "dir"
  BY Nested
<1> HIDE DEF p
<1>5. ASSUME Kind(p) = "link" PROVE fs[p].to \in Seq(Names) /\ Kind(fs[p].to) # "dir"
  <2>1. p \in DOMAIN fs /\ fs[p].kind = "link"
    BY <1>2, <1>5 DEF Kind
  <2> QED BY <2>1, DirectoriesLast DEF TreeStands, Kind, KindIn
<1>6. ASSUME NEW e \in After(d, n)
      PROVE  e \in Seq(Names) /\ (Kind(e) = "dir" => Kind(d) = "dir" /\ e = p)
  BY <1>2, <1>3, <1>5, <1>6
<1>7. Kind(p) = "dir" => p \in After(d, n)
  BY <1>3, <1>4
<1> QED BY <1>6, <1>7 DEF p

LEMMA Reaching ==
  ASSUME TreeStands(fs), NEW p \in Seq(Names)
  PROVE  /\ \A d \in Reached(p) : d \in Seq(Names) /\ (Kind(d) = "dir" => d = p)
         /\ Kind(p) = "dir" => p \in Reached(p)
<1>1. PICK f : LeadsUpTo(f, p, Len(p)) /\ Reached(p) = f[Len(p)]
  BY ReachedIs
<1>2. Len(p) \in Nat
  BY LenProperties
<1> DEFINE b(i) == SubSeq(p, 1, i)
           Right(i) == /\ \A d \in f[i] : d \in Seq(Names) /\ (Kind(d) = "dir" => d = b(i))
                       /\ Kind(b(i)) = "dir" => b(i) \in f[i]
           right == {i \in Nat : i <= Len(p) => Right(i)}
<1>3. 0 \in right
  <2>1. f[0] = {<<>>}
    <3>1. LeadsTo(f, p, 0)
      BY <1>1, <1>2 DEF LeadsUpTo
    <3> QED BY <3>1 DEF LeadsTo
  <2>2. b(0) = <<>> /\ <<>> \in Seq(Names)
    BY WholeBeginning, EmptySeq
  <2> HIDE DEF b
  <2> QED BY <2>1, <2>2
<1>4. ASSUME NEW i \in right PROVE i + 1 \in right
  <2> SUFFICES ASSUME i + 1 <= Len(p) PROVE Right(i + 1)
    BY <1>4
  <2> DEFINE n == p[i + 1]
  <2>1. Right(i) /\ i \in Nat
    BY <1>2, <1>4
  <2>2. /\ n \in Names /\ b(i) \in Seq(Names) /\ b(i + 1) = Append(b(i), n)
    <3>1. i + 1 \in 1..Len(p) /\ (i + 1) - 1 = i
      BY <1>2, <2>1
    <3>2. /\ p[i + 1] \in Names /\ b((i + 1) - 1) \in Seq(Names)
          /\ b(i + 1) = Append(b((i + 1) - 1), p[i + 1])
      BY <3>1, BeginningGrows
    <3> QED BY <3>1, <3>2
  <2>3. f[i + 1] = UNION {After(d, n) : d \in f[i]}
    <3>1. i + 1 \in 0..Len(p) /\ i + 1 # 0 /\ (i + 1) - 1 = i
      BY <1>2, <2>1
    <3>2. LeadsTo(f, p, i + 1)
      BY <1>1, <3>1 DEF LeadsUpTo
    <3> QED BY <3>1, <3>2 DEF LeadsTo
  <2> HIDE DEF n, b
  <2>4. ASSUME NEW e \in f[i + 1]
        PROVE  e \in Seq(Names) /\ (Kind(e) = "dir" => e = b(i + 1))
    <3>1. PICK d \in f[i] : e \in After(d, n)
      BY <2>3, <2>4
    <3>2. d \in Seq(Names) /\ (Kind(d) = "dir" => d = b(i))
      BY <2>1
    <3>3. e \in Seq(Names) /\ (Kind(e) = "dir" => Kind(d) = "dir" /\ e = Append(d, n))
      BY <2>2, <3>1, <3>2, OneComponent
    <3> QED BY <2>2, <3>2, <3>3
  <2>5. ASSUME Kind(b(i + 1)) = "dir" PROVE b(i + 1) \in f[i + 1]
    <3>1. Kind(b(i)) = "dir" /\ b(i + 1) \in After(b(i), n)
      <4>1. b(i) \in Seq(Names) /\ n \in Names /\ Kind(Append(b(i), n)) = "dir"
        BY <2>2, <2>5
      <4>2. Kind(Append(b(i), n)) # "none"
        BY <4>1
      <4>3. Kind(b(i)) = "dir"
        BY ONLY TreeStands(fs), <4>1, <4>2, Nested
      <4>4. Append(b(i), n) \in After(b(i), n)
        BY ONLY TreeStands(fs), <4>1, OneComponent
      <4> QED BY <2>2, <4>3, <4>4
    <3>2. b(i) \in f[i]
      BY <2>1, <3>1
    <3> QED BY <2>3, <3>1, <3>2
  <2> QED BY <2>4, <2>5
<1>5. right = Nat
  <2>1. right \subseteq Nat
    OBVIOUS
  <2> HIDE DEF right
  <2> QED BY <1>3, <1>4, <2>1, UpToAll
<1>6. Right(Len(p)) /\ b(Len(p)) = p
  BY <1>2, <1>5, WholeBeginning
<1> HIDE DEF b
<1> QED BY <1>1, <1>6

LEMMA DirectoryIs ==
  ASSUME TreeStands(fs), NEW p \in Seq(Names)
  PROVE  FileSystem_isDirectory(p) <=> Kind(p) = "dir"
BY Reaching DEF FileSystem_isDirectory

LEMMA EntryIs ==
  ASSUME TreeStands(fs), NEW p \in Seq(Names), p # <<>>
  PROVE  Entry(p) = IF Kind(Front(p)) = "dir" THEN {p} ELSE {}
<1>1. Front(p) \in Seq(Names) /\ p = Append(Front(p), Last(p))
  BY PathParts
<1> DEFINE dirs == {e \in Reached(Front(p)) : Kind(e) = "dir"}
<1>2. dirs = IF Kind(Front(p)) = "dir" THEN {Front(p)} ELSE {}
  BY <1>1, Reaching
<1>3. Entry(p) = {Append(d, Last(p)) : d \in dirs}
  BY DEF Entry
<1> HIDE DEF dirs
<1> QED BY <1>1, <1>2, <1>3

LEMMA StandsIn ==
  ASSUME TreeStands(fs), NEW p \in Seq(Names), p # <<>>, Kind(p) # "none"
  PROVE  Entry(p) = {p} /\ Kind(Front(p)) = "dir" /\ Len(p) <= MaxDepth
<1>1. p \in DOMAIN fs
  BY DEF Kind
<1> QED BY <1>1, EntryIs DEF TreeStands, Kind, KindIn

LEMMA OnlyDirectoriesHold ==
  ASSUME TreeStands(fs), NEW p \in Seq(Names)
  PROVE  /\ Children(p) # {} => Kind(p) = "dir" /\ Len(p) + 1 <= MaxDepth
         /\ Children(p) \subseteq Names
         /\ UNION {Children(d) : d \in Reached(p)} \subseteq Children(p)
         /\ Kind(p) = "dir" => UNION {Children(d) : d \in Reached(p)} = Children(p)
<1>1. \A d \in Seq(Names) : Children(d) # {} => Kind(d) = "dir" /\ Len(d) + 1 <= MaxDepth
  BY Nested DEF Children
<1>2. Children(p) \subseteq Names
  BY DEF Children
<1>3. ASSUME Kind(p) = "dir" PROVE UNION {Children(d) : d \in Reached(p)} = Children(p)
  <2>1. p \in Reached(p) /\ \A d \in Reached(p) : d = p \/ Children(d) = {}
    BY <1>1, <1>3, Reaching
  <2> QED BY <2>1
<1>4. UNION {Children(d) : d \in Reached(p)} \subseteq Children(p)
  <2>1. \A d \in Reached(p) : d = p \/ Children(d) = {}
    BY <1>1, Reaching
  <2> QED BY <2>1
<1> QED BY <1>1, <1>2, <1>3, <1>4

LEMMA Looked ==
    \A p : Kind(p) = KindIn(fs, p) /\ Children(p) = HeldIn(fs, p)
BY DEF Kind, Children, KindIn, HeldIn

-----------------------------------------------------------------------------
(* The inductive invariant.                                                  *)

Frames ==
    [fn : {"remove", "content"}, path : Seq(Names),
     at : {"isDir", "remove", "emptied", "open", "loop"}, todo : SUBSET (Names \cup {".", ".."})]
Results == {"SUCCESS", "GENERICERROR", "NOTADIRECTORY"}
RemoverType == [stack : Seq(Frames), ret : Results, calls : {0, 1}, stopped : BOOLEAN]
MakerType == [path : Seq(Names), i : Nat, at : {"idle", "look", "make", "check", "returned"},
              result : BOOLEAN]

\* What a frame f says of itself as frame number k: how deep its path is.
RoomIn(f) == \A n \in f.todo \cap Names : Len(f.path) + 1 <= MaxDepth
FrameStands(f, k) ==
    /\ Len(f.path) <= MaxDepth /\ Below(f.path)
    /\ f.fn = "remove" => /\ f.at \in {"isDir", "remove", "emptied"}
                          /\ k = 2 * (Len(f.path) - Len(Target)) + 1
    /\ f.fn = "content" => /\ f.at \in {"isDir", "open", "loop"}
                           /\ k = 2 * (Len(f.path) - Len(Target)) + 2
    /\ f.at = "loop" => RoomIn(f)

\* Frame f waits for the call of frame g to return.
Waits(f) == f.at \in {"remove", "emptied", "loop"}
WaitsFor(f, g) ==
    \/ f.fn = "remove" /\ f.at \in {"remove", "emptied"} /\ g.fn = "content" /\ g.path = f.path
    \/ /\ f.fn = "content" /\ f.at = "loop" /\ g.fn = "remove"
       /\ g.path # <<>> /\ f.path = Front(g.path)

\* The calls under way are nested, and a failure is met only where it is passed on.
StackStands(r) ==
    /\ \A k \in 1..Len(r.stack) : FrameStands(r.stack[k], k)
    /\ \A k \in 1..Len(r.stack) - 1 : WaitsFor(r.stack[k], r.stack[k + 1])
    /\ r.ret # "SUCCESS" /\ r.stack # <<>> => Waits(r.stack[Len(r.stack)])
    /\ r.calls = 0 => r.stack = <<>>

\* How far a process that makes directories has come, while nothing was removed.
Way(m, i) == SubSeq(m.path, 1, i)
Obstructed(m, t) == \E i \in 1..Len(m.path) : KindIn(t, Way(m, i)) \notin {"dir", "none"}
Made(m) == IF m.at \in {"look", "make"} THEN m.i - 1 ELSE Len(m.path)
HasMade(m, t) == /\ \A i \in 1..Made(m) : KindIn(t, Way(m, i)) = "dir"
                 /\ m.at = "returned" => m.result
MakerStands(m, t, lost) ==
    /\ m.at = "idle" => m.i = 0
    /\ m.at # "idle" =>
        /\ m.path \in ToMake /\ m.i \in 1..Len(m.path)
        /\ m.at \in {"check", "returned"} => m.i = Len(m.path)
        /\ lost \/ Obstructed(m, t) \/ HasMade(m, t)

\* A remover that nobody disturbs knows what the directories hold: a directory
\* it reads holds the entries that are still to come and the one it is at.
Undisturbed == other = 0 /\ \A m \in Makers : maker[m].at = "idle"
Missing(r, k) == IF k < Len(r.stack) THEN {Last(r.stack[k + 1].path)} ELSE {}
Listed(f, missing, t) ==
    HeldIn(t, f.path) = (f.todo \cap Names) \cup missing /\ missing \cap f.todo = {}
FrameAlone(f, missing, last, t) ==
    /\ KindIn(t, f.path) # "none"
    /\ f.fn = "content" => KindIn(t, f.path) = "dir"
    /\ f.at = "loop" => Listed(f, missing, t)
    /\ last /\ f.at \in {"remove", "emptied"} => HeldIn(t, f.path) = {}
FrameKnows(r, k, t) == FrameAlone(r.stack[k], Missing(r, k), k = Len(r.stack), t)
AloneKnows(r, t) ==
    /\ r.ret = "SUCCESS"
    /\ r.calls = 0 => KindIn(t, Target) # "none"
    /\ r.calls = 1 /\ r.stack = <<>> => KindIn(t, Target) = "none"
    /\ \A k \in 1..Len(r.stack) : FrameKnows(r, k, t)

TreeInv ==
    /\ TreeStands(fs)
    /\ remover \in RemoverType /\ maker \in [Makers -> MakerType]
    /\ other \in 0..MaxOther /\ cleared \in BOOLEAN
    /\ StackStands(remover)
    /\ \A m \in Makers : MakerStands(maker[m], fs, cleared)
    /\ Undisturbed => AloneKnows(remover, fs)

-----------------------------------------------------------------------------
(* How removing and making change the tree.                                  *)

\* All kinds are as before but for that of path p, which is now k.
Becomes(p, k) == \A q : KindIn(fs', q) = IF q = p THEN k ELSE KindIn(fs, q)

LEMMA RemovingIs ==
  ASSUME TreeStands(fs), NEW p \in Seq(Names), p # <<>>, CanRemove(p), fs' = Without(p)
  PROVE  /\ TreeStands(fs') /\ Becomes(p, "none")
         /\ \A q \in DOMAIN fs : q # p => q \in DOMAIN fs' /\ fs'[q] = fs[q]
<1>1. Entry(p) = {p} /\ Kind(p) # "none" /\ (Kind(p) = "dir" => Children(p) = {})
  BY EntryIs DEF CanRemove
<1>2. DOMAIN fs' = DOMAIN fs \ {p} /\ \A q \in DOMAIN fs' : fs'[q] = fs[q]
  BY <1>1 DEF Without
<1>3. Becomes(p, "none")
  BY <1>2 DEF Becomes, KindIn
<1>4. ASSUME NEW q \in DOMAIN fs' PROVE KindIn(fs', Front(q)) = "dir"
  <2>1. q \in DOMAIN fs /\ q \in Seq(Names) /\ q # <<>> /\ KindIn(fs, Front(q)) = "dir"
    BY <1>2 DEF TreeStands
  <2>2. ASSUME Front(q) = p PROVE FALSE
    <3>1. Last(q) \in Names /\ q = Append(p, Last(q))
      BY <2>1, <2>2, PathParts
    <3>2. KindIn(fs, q) # "none"
      BY <2>1 DEF TreeStands, KindIn
    <3>3. Last(q) \in HeldIn(fs, p)
      BY <3>1, <3>2 DEF HeldIn
    <3>4. KindIn(fs, p) = "dir"
      BY <2>1, <2>2
    <3> QED BY <1>1, <3>3, <3>4, Looked
  <2> QED BY <1>3, <2>1, <2>2 DEF Becomes
<1>5. TreeStands(fs')
  BY <1>2, <1>4 DEF TreeStands
<1> QED BY <1>2, <1>3, <1>5

LEMMA MakingIs ==
  ASSUME TreeStands(fs), NEW p \in Seq(Names), p # <<>>, CanMake(p),
         NEW kind \in {"file", "dir"}, kind = "dir" => p \in Directories,
         fs' = WithNode(p, Node(kind, <<>>))
  PROVE  /\ TreeStands(fs') /\ Becomes(p, kind) /\ KindIn(fs, p) = "none"
<1>1. Entry(p) = {p} /\ Kind(Front(p)) = "dir" /\ Kind(p) = "none" /\ Len(p) <= MaxDepth
  BY EntryIs DEF CanMake
<1> DEFINE node == Node(kind, <<>>)
<1>2. node.kind = kind /\ node.to = <<>> /\ node.to \in Seq(Names)
  BY EmptySeq DEF Node
<1> HIDE DEF node
<1>3. /\ DOMAIN fs' = DOMAIN fs \cup {p}
      /\ \A q \in DOMAIN fs' : fs'[q] = IF q \in DOMAIN fs THEN fs[q] ELSE node
  BY <1>1 DEF WithNode, node
<1>4. p \notin DOMAIN fs
  BY <1>1 DEF Kind, TreeStands
<1>5. Becomes(p, kind)
  BY <1>2, <1>3, <1>4 DEF Becomes, KindIn
<1>6. KindIn(fs, p) = "none" /\ KindIn(fs, Front(p)) = "dir"
  BY <1>1, Looked
<1>7. ASSUME NEW q \in DOMAIN fs' PROVE KindIn(fs', Front(q)) = "dir"
  <2>1. KindIn(fs, Front(q)) = "dir"
    BY <1>3, <1>6 DEF TreeStands
  <2> QED BY <1>5, <1>6, <2>1 DEF Becomes
<1>8. ASSUME NEW q \in DOMAIN fs'
      PROVE  /\ q \in Seq(Names) /\ q # <<>> /\ Len(q) <= MaxDepth
             /\ fs'[q].kind \in {"file", "dir", "link"} /\ fs'[q].to \in Seq(Names)
             /\ fs'[q].kind = "dir" => q \in Directories
             /\ fs'[q].kind = "link" => fs'[q].to \notin Directories
  <2>1. CASE q \in DOMAIN fs
    BY <1>3, <2>1 DEF TreeStands
  <2>2. CASE q \notin DOMAIN fs
    <3>1. q = p /\ fs'[q] = node
      BY <1>3, <2>2
    <3> QED BY <1>1, <1>2, <3>1
  <2> QED BY <2>1, <2>2
<1>9. TreeStands(fs')
  BY <1>7, <1>8 DEF TreeStands
<1> QED BY <1>5, <1>6, <1>9

\* Whatever stands, stands on.
Grows == \A q : KindIn(fs, q) # "none" => KindIn(fs', q) = KindIn(fs, q)

LEMMA MakerStandsOn ==
  ASSUME NEW m, MakerStands(m, fs, cleared), cleared' = TRUE \/ (cleared' = cleared /\ Grows)
  PROVE  MakerStands(m, fs', cleared')
<1>1. ASSUME Grows, Obstructed(m, fs) PROVE Obstructed(m, fs')
  BY <1>1 DEF Obstructed, Grows
<1>2. ASSUME Grows, HasMade(m, fs) PROVE HasMade(m, fs')
  BY <1>2 DEF HasMade, Grows
<1> QED BY <1>1, <1>2 DEF MakerStands

-----------------------------------------------------------------------------
(* The calls of the remover: the last one goes on, calls another one, or     *)
(* returns.                                                                  *)

LEMMA TopReplaced ==
  ASSUME NEW s \in Seq(Frames), s # <<>>, NEW f \in Frames, NEW n, n = Len(s)
  PROVE  /\ n \in Nat \ {0} /\ s[n] \in Frames /\ Last(s) = s[n]
         /\ Append(Front(s), f) \in Seq(Frames) /\ Len(Append(Front(s), f)) = n
         /\ Append(Front(s), f)[n] = f
         /\ \A k \in 1..n - 1 : Append(Front(s), f)[k] = s[k]
<1>1. n \in Nat \ {0}
  BY EmptySeq
<1>2. s[n] \in Frames
  BY <1>1, ElementOfSeq
<1> DEFINE b == Front(s)
<1>3. b \in Seq(Frames) /\ Len(b) = n - 1 /\ \A k \in 1..n - 1 : b[k] = s[k]
  <2>1. \A k \in 1..n - 1 : s[k] \in Frames
    BY <1>1, ElementOfSeq
  <2>2. /\ SubSeq(s, 1, n - 1) \in Seq(Frames) /\ Len(SubSeq(s, 1, n - 1)) = n - 1
        /\ \A k \in 1..n - 1 : SubSeq(s, 1, n - 1)[k] = s[k]
    BY <1>1, <2>1, SubSeqProperties
  <2> QED BY <2>2 DEF Front
<1> HIDE DEF b
<1>4. /\ Append(b, f) \in Seq(Frames) /\ Len(Append(b, f)) = Len(b) + 1
      /\ \A k \in 1..Len(b) : Append(b, f)[k] = b[k]
      /\ Append(b, f)[Len(b) + 1] = f
  BY <1>3, AppendProperties
<1>5. Len(b) + 1 = n
  BY <1>1, <1>3
<1>6. Append(b, f)[n] = f /\ Len(Append(b, f)) = n
  BY <1>4, <1>5
<1>7. \A k \in 1..n - 1 : Append(b, f)[k] = s[k]
  BY <1>3, <1>4
<1> QED BY <1>1, <1>2, <1>4, <1>6, <1>7 DEF Last, b

LEMMA TopRemoved ==
  ASSUME NEW s \in Seq(Frames), s # <<>>, NEW n, n = Len(s)
  PROVE  /\ n \in Nat \ {0} /\ s[n] \in Frames /\ Last(s) = s[n]
         /\ Front(s) \in Seq(Frames) /\ Len(Front(s)) = n - 1
         /\ \A k \in 1..n - 1 : Front(s)[k] = s[k]
         /\ n = 1 => Front(s) = <<>>
<1>1. n \in Nat \ {0}
  BY EmptySeq
<1>2. s[n] \in Frames
  BY <1>1, ElementOfSeq
<1>3. \A k \in 1..n - 1 : s[k] \in Frames
  BY <1>1, ElementOfSeq
<1>4. /\ SubSeq(s, 1, n - 1) \in Seq(Frames) /\ Len(SubSeq(s, 1, n - 1)) = n - 1
      /\ \A k \in 1..n - 1 : SubSeq(s, 1, n - 1)[k] = s[k]
  BY <1>1, <1>3, SubSeqProperties
<1>5. n = 1 => SubSeq(s, 1, n - 1) = <<>>
  BY <1>4, EmptySeq
<1> QED BY <1>1, <1>2, <1>4, <1>5 DEF Last, Front

LEMMA OnTop ==
  ASSUME NEW s \in Seq(Frames), NEW g \in Frames, NEW h \in Frames
  PROVE  s \o <<>> = s /\ s \o <<g>> = Append(s, g) /\ s \o <<g, h>> = Append(Append(s, g), h)
<1>1. s \o <<>> = s
  BY ConcatEmptySeq
<1>2. s \o <<g>> = Append(s, g) /\ Append(s, g) \in Seq(Frames)
  BY AppendIsConcat, AppendProperties
<1>3. s \o <<g, h>> = Append(Append(s, g), h)
  <2>1. <<g>> \in Seq(Frames) /\ <<h>> \in Seq(Frames) /\ <<g, h>> \in Seq(Frames)
    OBVIOUS
  <2>2. <<g>> \o <<h>> = <<g, h>>
    <3>1. Append(<<g>>, h) = <<g>> \o <<h>>
      BY <2>1, AppendIsConcat
    <3>2. /\ Append(<<g>>, h) \in Seq(Frames) /\ Len(Append(<<g>>, h)) = 2
          /\ Append(<<g>>, h)[1] = g /\ Append(<<g>>, h)[2] = h
      <4>1. Len(<<g>>) = 1 /\ <<g>>[1] = g
        OBVIOUS
      <4>2. /\ Append(<<g>>, h) \in Seq(Frames) /\ Len(Append(<<g>>, h)) = Len(<<g>>) + 1
            /\ \A i \in 1..Len(<<g>>) : Append(<<g>>, h)[i] = <<g>>[i]
            /\ Append(<<g>>, h)[Len(<<g>>) + 1] = h
        BY <2>1, AppendProperties
      <4> QED BY <4>1, <4>2
    <3>3. Len(<<g, h>>) = 2 /\ <<g, h>>[1] = g /\ <<g, h>>[2] = h
      OBVIOUS
    <3>4. \A i \in 1..2 : Append(<<g>>, h)[i] = <<g, h>>[i]
      BY <3>2, <3>3
    <3>5. Append(<<g>>, h) = <<g, h>>
      BY <2>1, <3>2, <3>3, <3>4, SeqEqual
    <3> QED BY <3>1, <3>5
  <2>3. (s \o <<g>>) \o <<h>> = s \o (<<g>> \o <<h>>)
    BY <2>1, ConcatAssociative
  <2>4. Append(Append(s, g), h) = Append(s, g) \o <<h>>
    BY <1>2, AppendIsConcat
  <2> QED BY <1>2, <2>2, <2>3, <2>4
<1> QED BY <1>1, <1>2, <1>3

TopBecomes(r, s, f) ==
    /\ r.stack # <<>> /\ s.stack = Append(Front(r.stack), f) /\ s.calls = r.calls
    /\ f.fn = r.stack[Len(r.stack)].fn /\ f.path = r.stack[Len(r.stack)].path
    /\ FrameStands(f, Len(r.stack))
    /\ s.ret # "SUCCESS" => Waits(f)
Pushed(r, s, g) ==
    /\ r.stack # <<>> /\ s.stack = Append(r.stack, g) /\ s.calls = r.calls
    /\ s.ret = "SUCCESS" /\ FrameStands(g, Len(r.stack) + 1)
    /\ WaitsFor(r.stack[Len(r.stack)], g)
Popped(r, s) == r.stack # <<>> /\ s.stack = Front(r.stack) /\ s.calls = r.calls

KnowsStill(r, s, k) == \A t : FrameKnows(r, k, t) => FrameKnows(s, k, t)

LEMMA TopBecomesIs ==
  ASSUME NEW r \in RemoverType, NEW s \in RemoverType, NEW f \in Frames,
         StackStands(r), TopBecomes(r, s, f), NEW n, n = Len(r.stack)
  PROVE  /\ StackStands(s) /\ n \in Nat \ {0} /\ Len(s.stack) = n /\ s.stack[n] = f
         /\ s.stack # <<>> /\ s.calls = r.calls /\ r.calls = 1
         /\ \A k \in 1..n - 1 : KnowsStill(r, s, k)
<1>1. r.stack \in Seq(Frames) /\ r.stack # <<>> /\ s.stack \in Seq(Frames) /\ r.calls \in {0, 1}
  BY DEF RemoverType, TopBecomes
<1>2. /\ n \in Nat \ {0} /\ r.stack[n] \in Frames
      /\ Len(s.stack) = n /\ s.stack[n] = f
      /\ \A k \in 1..n - 1 : s.stack[k] = r.stack[k]
  <2> DEFINE q == r.stack
  <2> HIDE DEF q
  <2>1. /\ n \in Nat \ {0} /\ q[n] \in Frames
        /\ Len(Append(Front(q), f)) = n /\ Append(Front(q), f)[n] = f
        /\ \A k \in 1..n - 1 : Append(Front(q), f)[k] = q[k]
    <3>1. q \in Seq(Frames) /\ q # <<>> /\ n = Len(q)
      BY <1>1 DEF q
    <3> QED BY <3>1, TopReplaced
  <2> QED BY <2>1 DEF TopBecomes, q
<1>3. s.stack # <<>>
  BY <1>1, <1>2, EmptySeq
<1>4. ASSUME NEW k \in 1..n PROVE FrameStands(s.stack[k], k)
  <2>1. CASE k = n
    BY <1>2, <2>1 DEF TopBecomes
  <2>2. CASE k # n
    <3>1. k \in 1..n - 1 /\ k \in 1..Len(r.stack)
      BY <1>2, <2>2
    <3> QED BY <1>2, <3>1 DEF StackStands
  <2> QED BY <2>1, <2>2
<1>5. f.fn = r.stack[n].fn /\ f.path = r.stack[n].path
  BY DEF TopBecomes
<1>6. ASSUME NEW k \in 1..n - 1 PROVE WaitsFor(s.stack[k], s.stack[k + 1])
  <2>1. WaitsFor(r.stack[k], r.stack[k + 1])
    BY DEF StackStands
  <2>2. CASE k + 1 = n
    BY <1>2, <1>5, <2>1, <2>2 DEF WaitsFor
  <2>3. CASE k + 1 # n
    <3>1. k + 1 \in 1..n - 1
      BY <1>2, <2>3
    <3> QED BY <1>2, <2>1, <3>1
  <2> QED BY <2>2, <2>3
<1>7. s.calls = r.calls /\ r.calls = 1
  BY <1>1 DEF TopBecomes, StackStands
<1>8. StackStands(s)
  BY <1>2, <1>3, <1>4, <1>6, <1>7 DEF StackStands, TopBecomes
<1>9. ASSUME NEW k \in 1..n - 1 PROVE KnowsStill(r, s, k)
  <2>1. s.stack[k + 1].path = r.stack[k + 1].path
    <3>1. CASE k + 1 = n
      BY <1>2, <1>5, <3>1
    <3>2. CASE k + 1 # n
      <4>1. k + 1 \in 1..n - 1
        BY <1>2, <3>2
      <4> QED BY <1>2, <4>1
    <3> QED BY <3>1, <3>2
  <2>2. Missing(s, k) = Missing(r, k) /\ s.stack[k] = r.stack[k] /\ k # n
    BY <1>2, <2>1 DEF Missing
  <2> QED BY <1>2, <2>2 DEF KnowsStill, FrameKnows, FrameAlone
<1> QED BY <1>2, <1>3, <1>7, <1>8, <1>9

LEMMA PushedIs ==
  ASSUME NEW r \in RemoverType, NEW s \in RemoverType, NEW g \in Frames,
         StackStands(r), Pushed(r, s, g)
  PROVE  /\ StackStands(s) /\ Len(r.stack) \in Nat \ {0} /\ Len(s.stack) = Len(r.stack) + 1
         /\ s.stack[Len(r.stack)] = r.stack[Len(r.stack)] /\ s.stack[Len(r.stack) + 1] = g
         /\ s.stack # <<>> /\ s.calls = r.calls /\ r.calls = 1
         /\ \A k \in 1..Len(r.stack) - 1 : KnowsStill(r, s, k)
<1> DEFINE n == Len(r.stack)
<1>1. r.stack \in Seq(Frames) /\ r.stack # <<>> /\ s.stack \in Seq(Frames) /\ r.calls \in {0, 1}
  BY DEF RemoverType, Pushed
<1>2. /\ n \in Nat \ {0} /\ Len(s.stack) = n + 1 /\ s.stack[n + 1] = g
      /\ \A k \in 1..n : s.stack[k] = r.stack[k]
  <2> DEFINE q == r.stack
  <2> HIDE DEF q
  <2>1. q \in Seq(Frames) /\ q # <<>> /\ n = Len(q)
    BY <1>1 DEF q
  <2>2. n \in Nat \ {0}
    BY <2>1, EmptySeq
  <2>3. /\ Len(Append(q, g)) = n + 1 /\ Append(q, g)[n + 1] = g
        /\ \A k \in 1..n : Append(q, g)[k] = q[k]
    BY <2>1, AppendProperties
  <2> QED BY <2>2, <2>3 DEF Pushed, q
<1>3. s.stack # <<>>
  BY <1>1, <1>2, EmptySeq
<1>4. ASSUME NEW k \in 1..n + 1 PROVE FrameStands(s.stack[k], k)
  <2>1. CASE k = n + 1
    BY <1>2, <2>1 DEF Pushed
  <2>2. CASE k # n + 1
    <3>1. k \in 1..n /\ k \in 1..Len(r.stack)
      BY <1>2, <2>2
    <3> QED BY <1>2, <3>1 DEF StackStands
  <2> QED BY <2>1, <2>2
<1>5. ASSUME NEW k \in 1..n PROVE WaitsFor(s.stack[k], s.stack[k + 1])
  <2>1. CASE k = n
    BY <1>2, <2>1 DEF Pushed
  <2>2. CASE k # n
    <3>1. k \in 1..n - 1 /\ k \in 1..n /\ k + 1 \in 1..n
      BY <1>2, <2>2
    <3>2. WaitsFor(r.stack[k], r.stack[k + 1])
      BY <3>1 DEF StackStands
    <3> QED BY <1>2, <3>1, <3>2
  <2> QED BY <2>1, <2>2
<1>6. s.calls = r.calls /\ r.calls = 1
  BY <1>1 DEF Pushed, StackStands
<1>7. StackStands(s)
  <2>1. Len(s.stack) = n + 1 /\ Len(s.stack) - 1 = n /\ s.ret = "SUCCESS"
    BY <1>2 DEF Pushed
  <2> QED BY <1>4, <1>5, <1>6, <2>1 DEF StackStands
<1>8. ASSUME NEW k \in 1..n - 1 PROVE KnowsStill(r, s, k)
  <2>1. k \in 1..n /\ k + 1 \in 1..n /\ k < n /\ k < n + 1
    BY <1>2
  <2>2. Missing(s, k) = Missing(r, k) /\ s.stack[k] = r.stack[k] /\ k # n /\ k # n + 1
    BY <1>2, <2>1 DEF Missing
  <2> QED BY <1>2, <2>2 DEF KnowsStill, FrameKnows, FrameAlone
<1> QED BY <1>2, <1>3, <1>6, <1>7, <1>8

LEMMA PoppedIs ==
  ASSUME NEW r \in RemoverType, NEW s \in RemoverType,
         StackStands(r), Popped(r, s), NEW n, n = Len(r.stack)
  PROVE  /\ StackStands(s) /\ n \in Nat \ {0} /\ Len(s.stack) = n - 1
         /\ n = 1 => s.stack = <<>>
         /\ n # 1 => /\ n - 1 \in 1..n - 1 /\ s.stack[n - 1] = r.stack[n - 1] /\ r.stack[n - 1] \in Frames
                     /\ WaitsFor(r.stack[n - 1], r.stack[n]) /\ FrameStands(r.stack[n - 1], n - 1)
         /\ s.calls = r.calls /\ r.calls = 1
         /\ \A k \in 1..n - 2 : KnowsStill(r, s, k)
<1>1. r.stack \in Seq(Frames) /\ r.stack # <<>> /\ s.stack \in Seq(Frames) /\ r.calls \in {0, 1}
  BY DEF RemoverType, Popped
<1>2. /\ n \in Nat \ {0} /\ Len(s.stack) = n - 1 /\ (n = 1 => s.stack = <<>>)
      /\ \A k \in 1..n - 1 : s.stack[k] = r.stack[k]
  <2> DEFINE q == r.stack
  <2> HIDE DEF q
  <2>1. /\ n \in Nat \ {0} /\ Len(Front(q)) = n - 1 /\ (n = 1 => Front(q) = <<>>)
        /\ \A k \in 1..n - 1 : Front(q)[k] = q[k]
    <3>1. q \in Seq(Frames) /\ q # <<>> /\ n = Len(q)
      BY <1>1 DEF q
    <3> QED BY <3>1, TopRemoved
  <2> QED BY <2>1 DEF Popped, q
<1>3. ASSUME NEW k \in 1..n - 1
      PROVE  FrameStands(s.stack[k], k) /\ WaitsFor(r.stack[k], r.stack[k + 1])
  <2>1. k \in 1..Len(r.stack) /\ k \in 1..Len(r.stack) - 1
    BY <1>2
  <2> QED BY <1>2, <2>1 DEF StackStands
<1>4. s.calls = r.calls /\ r.calls = 1
  BY <1>1 DEF Popped, StackStands
<1>5. n # 1 => /\ n - 1 \in 1..n - 1 /\ s.stack[n - 1] = r.stack[n - 1] /\ r.stack[n - 1] \in Frames
               /\ WaitsFor(r.stack[n - 1], r.stack[n]) /\ FrameStands(r.stack[n - 1], n - 1)
  <2> SUFFICES ASSUME n # 1 PROVE
               /\ n - 1 \in 1..n - 1 /\ s.stack[n - 1] = r.stack[n - 1] /\ r.stack[n - 1] \in Frames
               /\ WaitsFor(r.stack[n - 1], r.stack[n]) /\ FrameStands(r.stack[n - 1], n - 1)
    OBVIOUS
  <2>1. n - 1 \in 1..n - 1 /\ n - 1 \in 1..Len(r.stack) /\ (n - 1) + 1 = n
    <3>1. n \in Nat /\ n # 0 /\ n # 1
      BY <1>2
    <3>2. n - 1 \in 1..n - 1 /\ n - 1 \in 1..n /\ (n - 1) + 1 = n
      BY ONLY <3>1
    <3> QED BY <3>2
  <2>2. r.stack[n - 1] \in Frames
    BY <1>1, <2>1, ElementOfSeq
  <2>3. WaitsFor(r.stack[n - 1], r.stack[n]) /\ FrameStands(s.stack[n - 1], n - 1)
    <3>1. WaitsFor(r.stack[n - 1], r.stack[(n - 1) + 1])
      BY <1>3, <2>1
    <3> QED BY <1>3, <2>1, <3>1
  <2>4. s.stack[n - 1] = r.stack[n - 1]
    BY <1>2, <2>1
  <2> QED BY <2>1, <2>2, <2>3, <2>4
<1>6. StackStands(s)
  <2>1. ASSUME NEW k \in 1..Len(s.stack) - 1 PROVE WaitsFor(s.stack[k], s.stack[k + 1])
    <3>1. k \in 1..n - 1 /\ k + 1 \in 1..n - 1
      BY <1>2
    <3> QED BY <1>2, <1>3, <3>1
  <2>2. s.stack # <<>> => Waits(s.stack[Len(s.stack)])
    BY <1>2, <1>5 DEF WaitsFor, Waits
  <2> QED BY <1>2, <1>3, <1>4, <2>1, <2>2 DEF StackStands
<1>7. ASSUME NEW k \in 1..n - 2 PROVE KnowsStill(r, s, k)
  <2>1. k \in 1..n - 1 /\ k + 1 \in 1..n - 1 /\ k < n /\ k < n - 1 /\ k # n /\ k # n - 1
    <3>1. n \in Nat
      BY <1>2
    <3>2. k \in Nat /\ 1 <= k /\ k <= n - 2
      BY <3>1
    <3> QED BY ONLY <3>1, <3>2
  <2>2. Missing(s, k) = Missing(r, k) /\ s.stack[k] = r.stack[k]
    BY <1>2, <2>1 DEF Missing
  <2> QED BY <1>2, <2>1, <2>2 DEF KnowsStill, FrameKnows, FrameAlone
<1> QED BY <1>2, <1>4, <1>5, <1>6, <1>7

Topped(r, f, ret) == [r EXCEPT !.stack = Append(Front(r.stack), f), !.ret = ret]
PushedOn(r, g) == [r EXCEPT !.stack = Append(r.stack, g)]
PoppedTo(r, ret) == [r EXCEPT !.stack = Front(r.stack), !.ret = ret]
CallsKept(r, s, t, u) ==
    /\ s \in RemoverType /\ StackStands(s)
    /\ AloneKnows(r, t) => AloneKnows(s, u)

\* The last frame of r goes on as frame f.
GoesOn(r, f, ret) ==
    /\ r.stack # <<>>
    /\ f.fn = r.stack[Len(r.stack)].fn /\ f.path = r.stack[Len(r.stack)].path
    /\ FrameStands(f, Len(r.stack))
    /\ ret # "SUCCESS" => Waits(f)

LEMMA ToppedIs ==
  ASSUME NEW r \in RemoverType, NEW f \in Frames, NEW ret \in Results, StackStands(r), GoesOn(r, f, ret)
  PROVE  /\ Topped(r, f, ret) \in RemoverType /\ TopBecomes(r, Topped(r, f, ret), f)
         /\ Topped(r, f, ret).ret = ret
<1>1. r.stack \in Seq(Frames) /\ r.stack # <<>>
  BY DEF RemoverType, GoesOn
<1> DEFINE q == r.stack
           b == Append(Front(q), f)
<1>2. b \in Seq(Frames)
  <2>1. q \in Seq(Frames) /\ q # <<>>
    BY <1>1
  <2> HIDE DEF q
  <2> QED BY <2>1, TopReplaced
<1> HIDE DEF b
<1>3. Topped(r, f, ret) = [r EXCEPT !.stack = b, !.ret = ret]
  BY DEF Topped, b
<1> DEFINE s == Topped(r, f, ret)
<1>4. s \in RemoverType /\ s.stack = b /\ s.ret = ret /\ s.calls = r.calls
  BY <1>2, <1>3 DEF RemoverType
<1> HIDE DEF s
<1>5. TopBecomes(r, s, f)
  BY <1>4 DEF TopBecomes, GoesOn, b
<1> QED BY <1>4, <1>5 DEF s

LEMMA PushedOnIs ==
  ASSUME NEW r \in RemoverType, NEW g \in Frames, StackStands(r), r.stack # <<>>, r.ret = "SUCCESS",
         FrameStands(g, Len(r.stack) + 1), WaitsFor(r.stack[Len(r.stack)], g)
  PROVE  PushedOn(r, g) \in RemoverType /\ Pushed(r, PushedOn(r, g), g) /\ PushedOn(r, g).ret = "SUCCESS"
<1> DEFINE b == Append(r.stack, g)
           s == PushedOn(r, g)
<1>1. b \in Seq(Frames)
  <2>1. r.stack \in Seq(Frames)
    BY DEF RemoverType
  <2> QED BY <2>1, AppendProperties
<1> HIDE DEF b
<1>2. s = [r EXCEPT !.stack = b]
  BY DEF PushedOn, b
<1>3. s \in RemoverType /\ s.stack = b /\ s.ret = r.ret /\ s.calls = r.calls
  BY <1>1, <1>2 DEF RemoverType
<1> HIDE DEF s
<1>4. Pushed(r, s, g)
  BY <1>3 DEF Pushed, b
<1> QED BY <1>3, <1>4 DEF s

LEMMA PoppedToIs ==
  ASSUME NEW r \in RemoverType, NEW ret \in Results, StackStands(r), r.stack # <<>>
  PROVE  /\ PoppedTo(r, ret) \in RemoverType /\ Popped(r, PoppedTo(r, ret))
         /\ PoppedTo(r, ret).ret = ret
<1> DEFINE q == r.stack
           b == Front(q)
           s == PoppedTo(r, ret)
<1>1. b \in Seq(Frames)
  <2>1. q \in Seq(Frames) /\ q # <<>>
    BY DEF RemoverType
  <2> HIDE DEF q
  <2> QED BY <2>1, TopRemoved
<1> HIDE DEF b
<1>2. s = [r EXCEPT !.stack = b, !.ret = ret]
  BY DEF PoppedTo, b
<1>3. s \in RemoverType /\ s.stack = b /\ s.ret = ret /\ s.calls = r.calls
  BY <1>1, <1>2 DEF RemoverType
<1> HIDE DEF s
<1>4. Popped(r, s)
  BY <1>3 DEF Popped, b
<1> QED BY <1>3, <1>4 DEF s

LEMMA ToppedKeeps ==
  ASSUME NEW r \in RemoverType, NEW f \in Frames, NEW ret \in Results, NEW t,
         StackStands(r), GoesOn(r, f, ret),
         AloneKnows(r, t) => ret = "SUCCESS" /\ FrameAlone(f, {}, TRUE, t)
  PROVE  CallsKept(r, Topped(r, f, ret), t, t)
<1> DEFINE s == Topped(r, f, ret)
           n == Len(r.stack)
<1>1. s \in RemoverType /\ TopBecomes(r, s, f) /\ s.ret = ret
  BY ToppedIs
<1> HIDE DEF s
<1>2. /\ StackStands(s) /\ n \in Nat \ {0} /\ Len(s.stack) = n /\ s.stack[n] = f
      /\ s.stack # <<>> /\ s.calls = r.calls /\ r.calls = 1
      /\ \A k \in 1..n - 1 : KnowsStill(r, s, k)
  BY <1>1, TopBecomesIs
<1>3. ASSUME AloneKnows(r, t) PROVE AloneKnows(s, t)
  <2>1. ASSUME NEW k \in 1..n PROVE FrameKnows(s, k, t)
    <3>1. CASE k = n
      <4>1. Missing(s, n) = {}
        BY <1>2 DEF Missing
      <4> QED BY <1>2, <1>3, <3>1, <4>1 DEF FrameKnows, FrameAlone
    <3>2. CASE k # n
      <4>1. k \in 1..n - 1
        BY <1>2, <3>2
      <4> QED BY <1>2, <1>3, <4>1 DEF AloneKnows, KnowsStill
    <3> QED BY <3>1, <3>2
  <2> QED BY <1>1, <1>2, <1>3, <2>1 DEF AloneKnows
<1> QED BY <1>1, <1>2, <1>3 DEF CallsKept, s

LEMMA PushKeeps ==
  ASSUME NEW r \in RemoverType, NEW f \in Frames, NEW g \in Frames, NEW t,
         StackStands(r), GoesOn(r, f, "SUCCESS"),
         FrameStands(g, Len(r.stack) + 1), WaitsFor(f, g),
         AloneKnows(r, t) => FrameAlone(f, {Last(g.path)}, FALSE, t) /\ FrameAlone(g, {}, TRUE, t)
  PROVE  /\ CallsKept(r, PushedOn(Topped(r, f, "SUCCESS"), g), t, t)
         /\ PushedOn(Topped(r, f, "SUCCESS"), g).ret = "SUCCESS"
         /\ PushedOn(Topped(r, f, "SUCCESS"), g).stack # <<>>
         /\ Len(PushedOn(Topped(r, f, "SUCCESS"), g).stack) = Len(r.stack) + 1
         /\ PushedOn(Topped(r, f, "SUCCESS"), g).stack[Len(r.stack) + 1] = g
<1> DEFINE s == Topped(r, f, "SUCCESS")
           n == Len(r.stack)
<1>1. s \in RemoverType /\ TopBecomes(r, s, f) /\ s.ret = "SUCCESS"
  BY ToppedIs DEF Results
<1> HIDE DEF s
<1>2. /\ StackStands(s) /\ n \in Nat \ {0} /\ Len(s.stack) = n /\ s.stack[n] = f
      /\ s.stack # <<>> /\ s.calls = r.calls /\ r.calls = 1
      /\ \A k \in 1..n - 1 : KnowsStill(r, s, k)
  BY <1>1, TopBecomesIs
<1> DEFINE u == PushedOn(s, g)
<1>3. u \in RemoverType /\ Pushed(s, u, g) /\ u.ret = "SUCCESS"
  <2>1. FrameStands(g, Len(s.stack) + 1) /\ WaitsFor(s.stack[Len(s.stack)], g)
    BY <1>2
  <2> QED BY <1>1, <1>2, <2>1, PushedOnIs
<1> HIDE DEF u
<1>4. /\ StackStands(u) /\ Len(u.stack) = n + 1 /\ u.stack[n] = f /\ u.stack[n + 1] = g
      /\ u.stack # <<>> /\ u.calls = 1
      /\ \A k \in 1..n - 1 : KnowsStill(s, u, k)
  <2>1. n = Len(s.stack)
    BY <1>2
  <2>2. /\ StackStands(u) /\ Len(u.stack) = Len(s.stack) + 1
        /\ u.stack[Len(s.stack)] = s.stack[Len(s.stack)] /\ u.stack[Len(s.stack) + 1] = g
        /\ u.stack # <<>> /\ u.calls = s.calls
        /\ \A k \in 1..Len(s.stack) - 1 : KnowsStill(s, u, k)
    <3>1. StackStands(s) /\ Pushed(s, u, g) /\ s \in RemoverType /\ u \in RemoverType
      BY <1>1, <1>2, <1>3
    <3> QED BY ONLY <3>1, g \in Frames, PushedIs
  <2> QED BY <1>2, <2>2
<1>5. ASSUME AloneKnows(r, t) PROVE AloneKnows(u, t)
  <2>1. ASSUME NEW k \in 1..n + 1 PROVE FrameKnows(u, k, t)
    <3>1. CASE k = n + 1
      <4>1. Missing(u, n + 1) = {}
        BY <1>4 DEF Missing
      <4> QED BY <1>4, <1>5, <3>1, <4>1 DEF FrameKnows, FrameAlone
    <3>2. CASE k = n
      <4>1. Missing(u, n) = {Last(g.path)} /\ n # Len(u.stack)
        BY <1>2, <1>4 DEF Missing
      <4> QED BY <1>4, <1>5, <3>2, <4>1 DEF FrameKnows, FrameAlone
    <3>3. CASE k # n /\ k # n + 1
      <4>1. k \in 1..n - 1
        BY <1>2, <3>3
      <4>2. FrameKnows(r, k, t)
        BY <1>2, <1>5, <4>1 DEF AloneKnows
      <4> QED BY <1>2, <1>4, <4>1, <4>2 DEF KnowsStill
    <3> QED BY <3>1, <3>2, <3>3
  <2> QED BY <1>3, <1>4, <2>1 DEF AloneKnows
<1> QED BY <1>3, <1>4, <1>5 DEF CallsKept, u, s

LEMMA PopKeeps ==
  ASSUME NEW r \in RemoverType, NEW ret \in Results, NEW t, NEW u, StackStands(r), r.stack # <<>>,
         AloneKnows(r, t) =>
             /\ ret = "SUCCESS"
             /\ Len(r.stack) = 1 => KindIn(u, Target) = "none"
             /\ Len(r.stack) # 1 => FrameAlone(r.stack[Len(r.stack) - 1], {}, TRUE, u)
             /\ \A k \in 1..Len(r.stack) - 2 : FrameKnows(r, k, t) => FrameKnows(r, k, u)
  PROVE  CallsKept(r, PoppedTo(r, ret), t, u)
<1> DEFINE s == PoppedTo(r, ret)
           n == Len(r.stack)
<1>1. s \in RemoverType /\ Popped(r, s) /\ s.ret = ret
  BY PoppedToIs
<1> HIDE DEF s
<1>2. /\ StackStands(s) /\ n \in Nat \ {0} /\ Len(s.stack) = n - 1
      /\ n = 1 => s.stack = <<>>
      /\ n # 1 => s.stack[n - 1] = r.stack[n - 1]
      /\ s.calls = r.calls /\ r.calls = 1
      /\ \A k \in 1..n - 2 : KnowsStill(r, s, k)
  BY <1>1, PoppedIs, ZenonT(30)
<1>3. ASSUME AloneKnows(r, t) PROVE AloneKnows(s, u)
  <2>1. ASSUME NEW k \in 1..n - 1 PROVE FrameKnows(s, k, u)
    <3>1. CASE k = n - 1
      <4>1. n # 1 /\ Missing(s, k) = {} /\ s.stack[k] = r.stack[n - 1]
        BY <1>2, <3>1 DEF Missing
      <4>2. FrameAlone(r.stack[n - 1], {}, TRUE, u)
        BY <1>3, <4>1
      <4> QED BY <4>1, <4>2 DEF FrameKnows, FrameAlone
    <3>2. CASE k # n - 1
      <4>1. k \in 1..n - 2 /\ k \in 1..n
        BY <1>2, <3>2
      <4>2. FrameKnows(r, k, t)
        BY <1>3, <4>1 DEF AloneKnows
      <4>3. FrameKnows(r, k, u)
        BY <1>3, <4>1, <4>2
      <4> QED BY <1>2, <4>1, <4>3 DEF KnowsStill
    <3> QED BY <3>1, <3>2
  <2>2. s.stack = <<>> => n = 1
    BY <1>2, EmptySeq
  <2>3. s.ret = "SUCCESS" /\ s.calls = 1 /\ (s.stack = <<>> => KindIn(u, Target) = "none")
    BY <1>1, <1>2, <1>3, <2>2
  <2>4. \A k \in 1..Len(s.stack) : FrameKnows(s, k, u)
    BY <1>2, <2>1
  <2> HIDE DEF n
  <2> QED BY <2>3, <2>4 DEF AloneKnows
<1> QED BY <1>1, <1>2, <1>3 DEF CallsKept, s

-----------------------------------------------------------------------------
(* The steps of the remover.                                                 *)

LEMMA TopOf ==
  ASSUME TreeInv, remover.stack # <<>>
  PROVE  /\ remover \in RemoverType /\ StackStands(remover)
         /\ remover.calls = 1 /\ Len(remover.stack) \in Nat \ {0}
         /\ remover.stack[Len(remover.stack)] = Top /\ Top \in Frames
         /\ FrameStands(Top, Len(remover.stack))
         /\ Top.path \in Seq(Names) /\ Top.path # <<>>
         /\ remover.ret # "SUCCESS" => Waits(Top)
         /\ AloneKnows(remover, fs) => FrameAlone(Top, {}, TRUE, fs) /\ remover.ret = "SUCCESS"
<1> DEFINE st == remover.stack
           n == Len(st)
<1>1. remover \in RemoverType /\ StackStands(remover) /\ st \in Seq(Frames) /\ remover.calls \in {0, 1}
  BY DEF TreeInv, RemoverType
<1>2. n \in Nat \ {0} /\ st[n] \in Frames /\ Last(st) = st[n]
  <2>1. st \in Seq(Frames) /\ st # <<>>
    BY <1>1
  <2> HIDE DEF st
  <2> QED BY <2>1, TopRemoved
<1>3. Top = st[n]
  BY <1>2 DEF Top
<1>4. FrameStands(st[n], n)
  BY <1>1, <1>2 DEF StackStands
<1>5. st[n].path \in Seq(Names) /\ st[n].path # <<>>
  <2>1. st[n].path \in Seq(Names)
    BY <1>2 DEF Frames
  <2>2. Len(st[n].path) >= Len(Target) /\ Len(Target) \in Nat \ {0}
    BY <1>4, TreeAssumption, EmptySeq DEF FrameStands, Below
  <2>3. Len(<<>>) = 0
    BY EmptySeq
  <2> QED BY <2>1, <2>2, <2>3
<1>6. remover.calls = 1 /\ (remover.ret # "SUCCESS" => Waits(st[n]))
  BY <1>1 DEF StackStands
<1>7. ASSUME AloneKnows(remover, fs)
      PROVE  FrameAlone(st[n], {}, TRUE, fs) /\ remover.ret = "SUCCESS"
  <2>1. FrameKnows(remover, n, fs) /\ Missing(remover, n) = {}
    BY <1>2, <1>7 DEF AloneKnows, Missing
  <2>2. remover.ret = "SUCCESS"
    BY <1>7 DEF AloneKnows
  <2> QED BY <2>1, <2>2 DEF FrameKnows, FrameAlone
<1> QED BY <1>1, <1>2, <1>3, <1>4, <1>5, <1>6, <1>7

LEMMA HeldIs ==
  ASSUME TreeStands(fs), NEW p \in Seq(Names)
  PROVE  KindIn(fs, p) # "dir" => HeldIn(fs, p) = {}
BY OnlyDirectoriesHold, Looked

LEMMA ContentFrameIs ==
  ASSUME NEW p \in Seq(Names)
  PROVE  /\ ContentFrame(p) \in Frames /\ ContentFrame(p).fn = "content"
         /\ ContentFrame(p).path = p /\ ContentFrame(p).at = "isDir"
         /\ RemoveFrame(p) \in Frames /\ RemoveFrame(p).fn = "remove"
         /\ RemoveFrame(p).path = p /\ RemoveFrame(p).at = "isDir"
BY DEF ContentFrame, RemoveFrame, Frames

\* A call of deleteDirContent from a remove at number n.
LEMMA ContentStands ==
  ASSUME NEW f \in Frames, NEW n \in Nat, FrameStands(f, n), f.fn = "remove", f.at \in {"remove", "emptied"}
  PROVE  /\ FrameStands(ContentFrame(f.path), n + 1) /\ WaitsFor(f, ContentFrame(f.path))
<1>1. f.path \in Seq(Names) /\ Len(f.path) \in Nat /\ Len(Target) \in Nat
  BY TreeAssumption, LenProperties DEF Frames
<1>2. n = 2 * (Len(f.path) - Len(Target)) + 1 /\ Len(f.path) <= MaxDepth /\ Below(f.path)
  BY DEF FrameStands
<1>3. n + 1 = 2 * (Len(f.path) - Len(Target)) + 2
  BY <1>1, <1>2
<1> DEFINE g == ContentFrame(f.path)
<1>4. g.fn = "content" /\ g.path = f.path /\ g.at = "isDir"
  BY <1>1, ContentFrameIs
<1> HIDE DEF g
<1>5. FrameStands(g, n + 1)
  BY <1>2, <1>3, <1>4 DEF FrameStands
<1>6. WaitsFor(f, g)
  BY <1>4 DEF WaitsFor
<1> QED BY <1>5, <1>6 DEF g

LEMMA RemoveLooksKeeps ==
  ASSUME TreeInv, RemoveLooks
  PROVE  CallsKept(remover, remover', fs, fs)
<1> DEFINE f == Top
           f1 == [f EXCEPT !.at = "remove"]
           n == Len(remover.stack)
<1>1. remover.stack # <<>> /\ f.fn = "remove" /\ f.at = "isDir"
  BY DEF RemoveLooks, Running
<1>2. /\ remover \in RemoverType /\ StackStands(remover) /\ n \in Nat \ {0}
      /\ remover.stack[n] = f /\ f \in Frames /\ FrameStands(f, n) /\ f.path \in Seq(Names)
      /\ AloneKnows(remover, fs) => FrameAlone(f, {}, TRUE, fs)
  BY <1>1, TopOf
<1>3. TreeStands(fs)
  BY DEF TreeInv
<1> HIDE DEF f
<1>4. f1 \in Frames /\ f1.fn = "remove" /\ f1.path = f.path /\ f1.at = "remove"
  BY <1>1, <1>2 DEF Frames
<1> DEFINE more == IF FileSystem_isDirectory(f.path) THEN <<ContentFrame(f.path)>> ELSE <<>>
<1>5. remover' = [remover EXCEPT !.stack = Append(Front(remover.stack), f1) \o more, !.ret = "SUCCESS"]
  BY DEF RemoveLooks, Replace, f
<1> HIDE DEF f1
<1>6. FrameStands(f1, n) /\ GoesOn(remover, f1, "SUCCESS")
  BY <1>1, <1>2, <1>4 DEF GoesOn, FrameStands
<1> DEFINE b == Append(Front(remover.stack), f1)
<1>7. b \in Seq(Frames)
  <2>1. remover.stack \in Seq(Frames)
    BY <1>2 DEF RemoverType
  <2> DEFINE st == remover.stack
  <2> HIDE DEF st
  <2>2. st \in Seq(Frames) /\ st # <<>>
    BY <1>1, <2>1 DEF st
  <2>3. Append(Front(st), f1) \in Seq(Frames)
    BY <1>4, <2>2, TopReplaced
  <2> QED BY <2>3 DEF st
<1> HIDE DEF b
<1>8. CASE FileSystem_isDirectory(f.path)
  <2> DEFINE g == ContentFrame(f.path)
  <2>1. g \in Frames /\ g.fn = "content" /\ g.at = "isDir" /\ g.path = f.path
    BY <1>2, ContentFrameIs
  <2>2. FrameStands(g, n + 1) /\ WaitsFor(f1, g)
    <3>1. FrameStands(ContentFrame(f1.path), n + 1) /\ WaitsFor(f1, ContentFrame(f1.path))
      BY <1>2, <1>4, <1>6, ContentStands
    <3> QED BY <1>4, <3>1
  <2>3. more = <<g>>
    BY <1>8
  <2> HIDE DEF g, more
  <2>4. remover' = PushedOn(Topped(remover, f1, "SUCCESS"), g)
    <3>1. b \o <<g>> = Append(b, g)
      BY <1>7, <2>1, OnTop
    <3>2. remover' = [remover EXCEPT !.stack = Append(b, g), !.ret = "SUCCESS"]
      BY <1>5, <2>3, <3>1 DEF b
    <3>3. Topped(remover, f1, "SUCCESS") = [remover EXCEPT !.stack = b, !.ret = "SUCCESS"]
      BY DEF Topped, b
    <3>4. Topped(remover, f1, "SUCCESS").stack = b
      BY <1>2, <3>3 DEF RemoverType
    <3> QED BY <1>2, <3>2, <3>3, <3>4 DEF PushedOn, RemoverType
  <2>5. ASSUME AloneKnows(remover, fs)
        PROVE  FrameAlone(f1, {Last(g.path)}, FALSE, fs) /\ FrameAlone(g, {}, TRUE, fs)
    <3>1. KindIn(fs, f.path) = "dir"
      BY <1>2, <1>3, <1>8, DirectoryIs, Looked
    <3> QED BY <1>4, <2>1, <3>1 DEF FrameAlone
  <2> HIDE DEF n
  <2> QED BY <1>2, <1>4, <1>6, <2>1, <2>2, <2>4, <2>5, PushKeeps DEF n
<1>9. CASE ~FileSystem_isDirectory(f.path)
  <2>1. more = <<>>
    BY <1>9
  <2> HIDE DEF more
  <2>2. remover' = Topped(remover, f1, "SUCCESS")
    <3>1. b \o <<>> = b
      BY <1>7, ConcatEmptySeq
    <3> QED BY <1>5, <2>1, <3>1 DEF Topped, b
  <2>3. ASSUME AloneKnows(remover, fs) PROVE FrameAlone(f1, {}, TRUE, fs)
    <3>1. KindIn(fs, f.path) # "none" /\ KindIn(fs, f.path) # "dir"
      BY <1>2, <1>3, <1>9, <2>3, DirectoryIs, Looked DEF FrameAlone
    <3>2. HeldIn(fs, f.path) = {}
      BY <1>2, <1>3, <3>1, HeldIs
    <3> QED BY <1>4, <3>1, <3>2 DEF FrameAlone
  <2>4. "SUCCESS" \in Results
    BY DEF Results
  <2> QED BY <1>2, <1>4, <1>6, <2>2, <2>3, <2>4, ToppedKeeps
<1> QED BY <1>8, <1>9

\* A frame f on the way to frame number n, which is a remove of path p.
LEMMA OnTheWayTo ==
  ASSUME NEW f \in Frames, NEW k \in Nat, FrameStands(f, k),
         NEW e \in Frames, NEW n \in Nat, FrameStands(e, n), e.fn = "remove", k < n
  PROVE  /\ f.path # e.path
         /\ k < n - 1 /\ f.fn = "content" => \A m \in Names : Append(f.path, m) # e.path
<1>1. /\ f.path \in Seq(Names) /\ Len(f.path) \in Nat /\ Len(e.path) \in Nat /\ Len(Target) \in Nat
  BY TreeAssumption, LenProperties DEF Frames
<1>2. n = 2 * (Len(e.path) - Len(Target)) + 1
  BY DEF FrameStands
<1>3. \/ f.fn = "remove" /\ k = 2 * (Len(f.path) - Len(Target)) + 1
      \/ f.fn = "content" /\ k = 2 * (Len(f.path) - Len(Target)) + 2
  BY DEF FrameStands, Frames
<1>4. Len(f.path) # Len(e.path)
  BY <1>1, <1>2, <1>3
<1>5. ASSUME k < n - 1, f.fn = "content" PROVE Len(f.path) + 1 # Len(e.path)
  BY <1>1, <1>2, <1>3, <1>5
<1>6. \A m \in Names : Len(Append(f.path, m)) = Len(f.path) + 1
  BY <1>1, PathGrows
<1> QED BY <1>4, <1>5, <1>6

LEMMA HeldOn ==
  ASSUME NEW p, Becomes(p, "none"), NEW d, \A m \in Names : Append(d, m) # p
  PROVE  HeldIn(fs', d) = HeldIn(fs, d)
BY DEF Becomes, HeldIn

LEMMA RemoveRemovesKeeps ==
  ASSUME TreeInv, RemoveRemoves
  PROVE  /\ CallsKept(remover, remover', fs, fs') /\ TreeStands(fs')
         /\ remover'.ret # "SUCCESS" => fs' = fs
         /\ remover.ret # "SUCCESS" => remover'.ret # "SUCCESS"
         /\ (fs' = fs /\ cleared' = cleared) \/ cleared' = TRUE
         /\ \A p \in DOMAIN fs : ~Below(p) => p \in DOMAIN fs' /\ fs'[p] = fs[p]
<1> DEFINE f == Top
           st == remover.stack
           n == Len(st)
           ok == remover.ret = "SUCCESS" /\ CanRemove(f.path)
           ret == IF ok THEN "SUCCESS" ELSE "GENERICERROR"
<1>1. st # <<>> /\ f.fn = "remove" /\ f.at = "remove"
  BY DEF RemoveRemoves, Running
<1>2. /\ remover \in RemoverType /\ StackStands(remover) /\ n \in Nat \ {0}
      /\ st[n] = f /\ f \in Frames /\ FrameStands(f, n) /\ f.path \in Seq(Names) /\ f.path # <<>>
      /\ AloneKnows(remover, fs) => FrameAlone(f, {}, TRUE, fs) /\ remover.ret = "SUCCESS"
  BY <1>1, TopOf
<1>3. TreeStands(fs)
  BY DEF TreeInv
<1>4. /\ remover' = PoppedTo(remover, ret) /\ ret \in Results
      /\ ok => fs' = Without(f.path) /\ cleared' = TRUE
      /\ ~ok => fs' = fs /\ cleared' = cleared
  BY DEF RemoveRemoves, Returns, PoppedTo, Results
<1>5. Below(f.path)
  BY <1>2 DEF FrameStands
<1> HIDE DEF f
<1>6. ASSUME ok PROVE /\ TreeStands(fs') /\ Becomes(f.path, "none")
                      /\ \A q \in DOMAIN fs : q # f.path => q \in DOMAIN fs' /\ fs'[q] = fs[q]
  <2>1. CanRemove(f.path) /\ fs' = Without(f.path)
    BY <1>4, <1>6
  <2> QED BY <1>2, <1>3, <2>1, RemovingIs
<1>7. ASSUME AloneKnows(remover, fs) PROVE ok
  <2>1. remover.ret = "SUCCESS" /\ KindIn(fs, f.path) # "none" /\ HeldIn(fs, f.path) = {}
    BY <1>1, <1>2, <1>7 DEF FrameAlone
  <2>2. Kind(f.path) # "none" /\ Children(f.path) = {}
    BY <2>1, Looked
  <2>3. Entry(f.path) = {f.path}
    BY <1>2, <1>3, <2>2, StandsIn
  <2> QED BY <2>1, <2>2, <2>3 DEF CanRemove
<1> HIDE DEF ok
<1>8. ASSUME AloneKnows(remover, fs)
      PROVE  /\ ret = "SUCCESS"
             /\ n = 1 => KindIn(fs', Target) = "none"
             /\ n # 1 => FrameAlone(st[n - 1], {}, TRUE, fs')
             /\ \A k \in 1..n - 2 : FrameKnows(remover, k, fs) => FrameKnows(remover, k, fs')
  <2>1. ret = "SUCCESS" /\ Becomes(f.path, "none")
    BY <1>6, <1>7, <1>8
  <2>2. ASSUME n = 1 PROVE KindIn(fs', Target) = "none"
    <3>1. Len(f.path) = Len(Target)
      <4>1. 1 = 2 * (Len(f.path) - Len(Target)) + 1 /\ Len(f.path) \in Nat /\ Len(Target) \in Nat
        BY <1>1, <1>2, <2>2, TreeAssumption, LenProperties DEF FrameStands
      <4> QED BY ONLY <4>1
    <3>2. f.path = Target
      BY <1>2, <1>5, <3>1, WholeBeginning DEF Below
    <3>3. Target # <<>>
      BY TreeAssumption
    <3> QED BY <2>1, <3>2 DEF Becomes
  <2>3. ASSUME n # 1 PROVE FrameAlone(st[n - 1], {}, TRUE, fs')
    <3> DEFINE g == st[n - 1]
    <3>1. n - 1 \in 1..n /\ n - 1 \in 1..n - 1 /\ (n - 1) + 1 = n /\ n - 1 < n /\ n - 1 \in Nat /\ n \in Nat
      <4>1. n \in Nat /\ n # 0 /\ n # 1
        BY <1>2, <2>3
      <4> HIDE DEF n
      <4> QED BY ONLY <4>1
    <3>2. g \in Frames
      <4>1. st \in Seq(Frames)
        BY <1>2 DEF RemoverType
      <4> QED BY <3>1, <4>1, ElementOfSeq
    <3>3. FrameStands(g, n - 1) /\ WaitsFor(g, f)
      <4>1. FrameStands(st[n - 1], n - 1) /\ WaitsFor(st[n - 1], st[(n - 1) + 1])
        BY <1>2, <3>1 DEF StackStands
      <4> QED BY <1>2, <3>1, <4>1
    <3>4. g.fn = "content" /\ g.at = "loop" /\ g.path = Front(f.path)
      BY <1>1, <3>3 DEF WaitsFor
    <3>5. FrameKnows(remover, n - 1, fs) /\ Missing(remover, n - 1) = {Last(f.path)}
      BY <1>2, <1>8, <3>1 DEF AloneKnows, Missing
    <3> HIDE DEF g
    <3>6. KindIn(fs, g.path) = "dir" /\ Listed(g, {Last(f.path)}, fs)
      BY <3>4, <3>5 DEF FrameKnows, FrameAlone, g
    <3>7. g.path # f.path
      BY <1>1, <1>2, <3>1, <3>2, <3>3, OnTheWayTo
    <3>8. KindIn(fs', g.path) = "dir"
      BY <2>1, <3>6, <3>7 DEF Becomes
    <3>9. HeldIn(fs', g.path) = HeldIn(fs, g.path) \ {Last(f.path)}
      <4>1. f.path = Append(g.path, Last(f.path)) /\ Last(f.path) \in Names
        BY <1>2, <3>4, PathParts
      <4>2. \A m \in Names : Append(g.path, m) = f.path <=> m = Last(f.path)
        <5>1. g.path \in Seq(Names)
          BY <3>2 DEF Frames
        <5>2. \A m \in Names : Last(Append(g.path, m)) = m
          BY <5>1, PathGrows
        <5> QED BY <4>1, <5>2
      <4>3. \A m \in Names : KindIn(fs', Append(g.path, m))
                               = IF m = Last(f.path) THEN "none" ELSE KindIn(fs, Append(g.path, m))
        BY <2>1, <4>2 DEF Becomes
      <4> QED BY <4>3 DEF HeldIn
    <3>10. Listed(g, {}, fs')
      BY <3>6, <3>9 DEF Listed
    <3> QED BY <3>4, <3>8, <3>10 DEF FrameAlone, g
  <2>4. ASSUME NEW k \in 1..n - 2, FrameKnows(remover, k, fs) PROVE FrameKnows(remover, k, fs')
    <3> DEFINE g == st[k]
    <3>1. k \in 1..n /\ k < n /\ k < n - 1 /\ k \in Nat /\ k # n /\ n \in Nat
      <4>1. n \in Nat
        BY <1>2
      <4>2. k \in Nat /\ 1 <= k /\ k <= n - 2
        BY <4>1
      <4> HIDE DEF n
      <4> QED BY ONLY <4>1, <4>2
    <3>2. g \in Frames /\ FrameStands(g, k)
      <4>1. st \in Seq(Frames)
        BY <1>2 DEF RemoverType
      <4> QED BY <1>2, <3>1, <4>1, ElementOfSeq DEF StackStands
    <3> HIDE DEF g, n
    <3>3. g.path # f.path /\ (g.fn = "content" => \A m \in Names : Append(g.path, m) # f.path)
      BY <1>1, <1>2, <3>1, <3>2, OnTheWayTo
    <3>4. KindIn(fs', g.path) = KindIn(fs, g.path)
      BY <2>1, <3>3 DEF Becomes
    <3>5. g.at = "loop" => HeldIn(fs', g.path) = HeldIn(fs, g.path)
      <4>1. g.at = "loop" => g.fn = "content"
        BY <3>2 DEF FrameStands, Frames
      <4> QED BY <2>1, <3>3, <4>1, HeldOn
    <3>6. FrameAlone(g, Missing(remover, k), k = n, fs)
      BY <2>4 DEF FrameKnows, g, n
    <3>7. FrameAlone(g, Missing(remover, k), FALSE, fs')
      BY <3>4, <3>5, <3>6 DEF FrameAlone, Listed
    <3> QED BY <3>1, <3>7 DEF FrameKnows, FrameAlone, g, n
  <2> QED BY <2>1, <2>2, <2>3, <2>4
<1>9. CallsKept(remover, remover', fs, fs')
  <2> HIDE DEF ret
  <2>1. CallsKept(remover, PoppedTo(remover, ret), fs, fs')
    BY <1>1, <1>2, <1>4, <1>8, PopKeeps
  <2> QED BY <1>4, <2>1
<1>10. remover'.ret = ret
  <2> HIDE DEF ret
  <2> QED BY <1>2, <1>4 DEF PoppedTo, RemoverType
<1>11. \A p \in DOMAIN fs : ~Below(p) => p \in DOMAIN fs' /\ fs'[p] = fs[p]
  BY <1>4, <1>5, <1>6
<1> QED BY <1>3, <1>4, <1>6, <1>9, <1>10, <1>11 DEF ok

\* A frame f in the place of the last one, with others on it.
WithCalls(r, calls, ret) == [r EXCEPT !.stack = calls, !.ret = ret]

LEMMA Stacked ==
  ASSUME TreeInv, remover.stack # <<>>, NEW f \in Frames, NEW g \in Frames, NEW h \in Frames,
         NEW ret \in Results
  PROVE  /\ WithCalls(remover, Append(Front(remover.stack), f), ret)
              = Topped(remover, f, ret)
         /\ WithCalls(remover, Append(Front(remover.stack), f) \o <<>>, ret)
              = Topped(remover, f, ret)
         /\ WithCalls(remover, Append(Front(remover.stack), f) \o <<g>>, ret)
              = PushedOn(Topped(remover, f, ret), g)
         /\ WithCalls(remover, Append(Front(remover.stack), f) \o <<g, h>>, ret)
              = PushedOn(PushedOn(Topped(remover, f, ret), g), h)
<1> DEFINE st == remover.stack
           b == Append(Front(st), f)
<1>1. remover \in RemoverType /\ st \in Seq(Frames)
  BY DEF TreeInv, RemoverType
<1>2. b \in Seq(Frames)
  <2>1. st \in Seq(Frames) /\ st # <<>>
    BY <1>1
  <2> HIDE DEF st
  <2> QED BY <2>1, TopReplaced
<1> HIDE DEF b
<1>3. b \o <<>> = b /\ b \o <<g>> = Append(b, g) /\ b \o <<g, h>> = Append(Append(b, g), h)
  BY <1>2, OnTop
<1> DEFINE s0 == [remover EXCEPT !.stack = b, !.ret = ret]
           s1 == [remover EXCEPT !.stack = Append(b, g), !.ret = ret]
           s2 == [remover EXCEPT !.stack = Append(Append(b, g), h), !.ret = ret]
<1>4. Append(b, g) \in Seq(Frames) /\ Append(Append(b, g), h) \in Seq(Frames)
  BY <1>2, AppendProperties
<1>5. s0.stack = b /\ s1.stack = Append(b, g)
  BY <1>1 DEF RemoverType
<1>6. Topped(remover, f, ret) = s0
  BY DEF Topped, b
<1>7. PushedOn(s0, g) = s1
  <2> DEFINE c == Append(b, g)
  <2>1. PushedOn(s0, g) = [s0 EXCEPT !.stack = c]
    BY <1>5 DEF PushedOn
  <2> HIDE DEF c
  <2>2. [s0 EXCEPT !.stack = c] = [remover EXCEPT !.stack = c, !.ret = ret]
    BY <1>1 DEF RemoverType
  <2> QED BY <2>1, <2>2 DEF c
<1>8. PushedOn(s1, h) = s2
  <2> DEFINE c == Append(Append(b, g), h)
             d == Append(b, g)
  <2>1. PushedOn(s1, h) = [s1 EXCEPT !.stack = c]
    BY <1>5 DEF PushedOn
  <2> HIDE DEF c
  <2>2. [s1 EXCEPT !.stack = c] = [remover EXCEPT !.stack = c, !.ret = ret]
    <3> HIDE DEF d
    <3>1. s1 = [remover EXCEPT !.stack = d, !.ret = ret]
      BY DEF d
    <3> QED BY <1>1, <3>1 DEF RemoverType
  <2> QED BY <2>1, <2>2 DEF c
<1> QED BY <1>3, <1>6, <1>7, <1>8 DEF b, WithCalls

LEMMA ContentLooksKeeps ==
  ASSUME TreeInv, ContentLooks
  PROVE  CallsKept(remover, remover', fs, fs)
<1> DEFINE f == Top
           f1 == [f EXCEPT !.at = "open"]
           n == Len(remover.stack)
<1>1. remover.stack # <<>> /\ f.fn = "content" /\ f.at = "isDir"
  BY DEF ContentLooks, Running
<1>2. /\ remover \in RemoverType /\ StackStands(remover) /\ n \in Nat \ {0}
      /\ remover.stack[n] = f /\ f \in Frames /\ FrameStands(f, n) /\ f.path \in Seq(Names)
      /\ remover.ret # "SUCCESS" => Waits(f)
      /\ AloneKnows(remover, fs) => FrameAlone(f, {}, TRUE, fs)
  BY <1>1, TopOf
<1>3. TreeStands(fs) /\ remover.ret = "SUCCESS"
  BY <1>1, <1>2 DEF TreeInv, Waits
<1>4. /\ FileSystem_isDirectory(f.path)
           => remover' = [remover EXCEPT !.stack = Append(Front(remover.stack), f1)]
      /\ ~FileSystem_isDirectory(f.path) => remover' = PoppedTo(remover, "NOTADIRECTORY")
  BY DEF ContentLooks, Replace, Returns, PoppedTo
<1> HIDE DEF f
<1>5. f1 \in Frames /\ f1.fn = "content" /\ f1.path = f.path /\ f1.at = "open"
  BY <1>1, <1>2 DEF Frames
<1>6. "SUCCESS" \in Results /\ "NOTADIRECTORY" \in Results
  BY DEF Results
<1> HIDE DEF f1
<1>7. CASE FileSystem_isDirectory(f.path)
  <2>1. GoesOn(remover, f1, "SUCCESS")
    BY <1>1, <1>2, <1>5 DEF GoesOn, FrameStands
  <2>2. remover' = Topped(remover, f1, "SUCCESS")
    <3> DEFINE b == Append(Front(remover.stack), f1)
    <3>1. remover' = [remover EXCEPT !.stack = b]
      BY <1>4, <1>7
    <3> HIDE DEF b
    <3>2. remover' = [remover EXCEPT !.stack = b, !.ret = "SUCCESS"]
      BY <1>2, <1>3, <3>1 DEF RemoverType
    <3> QED BY <3>2 DEF b, Topped
  <2>3. AloneKnows(remover, fs) => "SUCCESS" = "SUCCESS" /\ FrameAlone(f1, {}, TRUE, fs)
    BY <1>1, <1>2, <1>5 DEF FrameAlone
  <2> QED BY <1>2, <1>5, <1>6, <2>1, <2>2, <2>3, ToppedKeeps
<1>8. CASE ~FileSystem_isDirectory(f.path)
  <2>1. ~AloneKnows(remover, fs)
    BY <1>1, <1>2, <1>3, <1>8, DirectoryIs, Looked DEF FrameAlone
  <2>2. CallsKept(remover, PoppedTo(remover, "NOTADIRECTORY"), fs, fs)
    BY <1>1, <1>2, <1>6, <2>1, PopKeeps
  <2> QED BY <1>4, <1>8, <2>2
<1> QED BY <1>7, <1>8

LEMMA ContentOpensKeeps ==
  ASSUME TreeInv, ContentOpens
  PROVE  CallsKept(remover, remover', fs, fs)
<1> DEFINE f == Top
           all == (UNION {Children(d) : d \in Reached(f.path)}) \cup {".", ".."}
           f1 == [f EXCEPT !.at = "loop", !.todo = all]
           n == Len(remover.stack)
<1>1. remover.stack # <<>> /\ f.fn = "content" /\ f.at = "open"
  BY DEF ContentOpens, Running
<1>2. /\ remover \in RemoverType /\ StackStands(remover) /\ n \in Nat \ {0}
      /\ remover.stack[n] = f /\ f \in Frames /\ FrameStands(f, n) /\ f.path \in Seq(Names)
      /\ remover.ret # "SUCCESS" => Waits(f)
      /\ AloneKnows(remover, fs) => FrameAlone(f, {}, TRUE, fs)
  BY <1>1, TopOf
<1>3. TreeStands(fs) /\ remover.ret = "SUCCESS" /\ "SUCCESS" \in Results
  BY <1>1, <1>2 DEF TreeInv, Waits, Results
<1>4. remover' = IF FileSystem_isDirectory(f.path)
                 THEN [remover EXCEPT !.stack = Append(Front(remover.stack), f1), !.ret = "SUCCESS"]
                 ELSE [remover EXCEPT !.stopped = TRUE]
  BY DEF ContentOpens, Replace
<1> HIDE DEF f
<1>5. /\ all \cap Names \subseteq HeldIn(fs, f.path) /\ all \subseteq Names \cup {".", ".."}
      /\ KindIn(fs, f.path) = "dir" => all \cap Names = HeldIn(fs, f.path)
      /\ HeldIn(fs, f.path) # {} => Len(f.path) + 1 <= MaxDepth
  <2> DEFINE these == UNION {Children(d) : d \in Reached(f.path)}
  <2>1. /\ Children(f.path) # {} => Len(f.path) + 1 <= MaxDepth
        /\ Children(f.path) \subseteq Names /\ these \subseteq Children(f.path)
        /\ Kind(f.path) = "dir" => these = Children(f.path)
    BY <1>2, <1>3, OnlyDirectoriesHold
  <2>2. Children(f.path) = HeldIn(fs, f.path) /\ Kind(f.path) = KindIn(fs, f.path)
    BY Looked
  <2>3. all = these \cup {".", ".."}
    OBVIOUS
  <2> HIDE DEF all, these
  <2>4. {".", ".."} \cap Names = {}
    BY TreeAssumption
  <2> QED BY <2>1, <2>2, <2>3, <2>4
<1> HIDE DEF all
<1>6. f1 \in Frames /\ f1.fn = "content" /\ f1.path = f.path /\ f1.at = "loop" /\ f1.todo = all
  BY <1>1, <1>2, <1>5 DEF Frames
<1> HIDE DEF f1
<1>7. CASE FileSystem_isDirectory(f.path)
  <2>1. FrameStands(f1, n)
    <3>1. RoomIn(f1)
      BY <1>5, <1>6 DEF RoomIn
    <3> QED BY <1>1, <1>2, <1>6, <3>1 DEF FrameStands
  <2>2. GoesOn(remover, f1, "SUCCESS")
    BY <1>1, <1>2, <1>6, <2>1 DEF GoesOn
  <2>3. remover' = Topped(remover, f1, "SUCCESS")
    BY <1>4, <1>7 DEF Topped
  <2>4. FrameAlone(f1, {}, TRUE, fs)
    <3>1. KindIn(fs, f.path) = "dir"
      BY <1>2, <1>3, <1>7, DirectoryIs, Looked
    <3> QED BY <1>5, <1>6, <3>1 DEF FrameAlone, Listed
  <2> QED BY <1>2, <1>3, <1>6, <2>2, <2>3, <2>4, ToppedKeeps
<1>8. CASE ~FileSystem_isDirectory(f.path)
  <2>1. /\ remover' \in RemoverType /\ remover'.stack = remover.stack /\ remover'.ret = remover.ret
        /\ remover'.calls = remover.calls
    BY <1>2, <1>4, <1>8 DEF RemoverType
  <2>2. StackStands(remover')
    BY <1>2, <2>1 DEF StackStands
  <2>3. ~AloneKnows(remover, fs)
    BY <1>1, <1>2, <1>3, <1>8, DirectoryIs, Looked DEF FrameAlone
  <2> QED BY <2>1, <2>2, <2>3 DEF CallsKept
<1> QED BY <1>7, <1>8

LEMMA ContentRemovesKeeps ==
  ASSUME TreeInv, ContentRemoves
  PROVE  /\ CallsKept(remover, remover', fs, fs)
         /\ remover.ret # "SUCCESS" => remover'.ret # "SUCCESS"
<1> DEFINE f == Top
           f1 == [f EXCEPT !.at = "isDir"]
           n == Len(remover.stack)
<1>1. remover.stack # <<>> /\ f.fn = "remove" /\ f.at = "emptied"
  BY DEF ContentRemoves, Running
<1>2. /\ remover \in RemoverType /\ StackStands(remover) /\ n \in Nat \ {0}
      /\ remover.stack[n] = f /\ f \in Frames /\ FrameStands(f, n) /\ f.path \in Seq(Names)
      /\ AloneKnows(remover, fs) => FrameAlone(f, {}, TRUE, fs) /\ remover.ret = "SUCCESS"
  BY <1>1, TopOf
<1>3. /\ remover.ret = "SUCCESS"
           => remover' = [remover EXCEPT !.stack = Append(Front(remover.stack), f1)]
      /\ remover.ret # "SUCCESS" => remover' = PoppedTo(remover, remover.ret)
  BY DEF ContentRemoves, Replace, Returns, PoppedTo
<1> HIDE DEF f
<1>4. f1 \in Frames /\ f1.fn = "remove" /\ f1.path = f.path /\ f1.at = "isDir"
  BY <1>1, <1>2 DEF Frames
<1>5. "SUCCESS" \in Results /\ remover.ret \in Results
  BY <1>2 DEF Results, RemoverType
<1> HIDE DEF f1
<1>6. CASE remover.ret = "SUCCESS"
  <2>1. GoesOn(remover, f1, "SUCCESS")
    BY <1>1, <1>2, <1>4 DEF GoesOn, FrameStands
  <2>2. remover' = Topped(remover, f1, "SUCCESS")
    <3> DEFINE b == Append(Front(remover.stack), f1)
    <3>1. remover' = [remover EXCEPT !.stack = b]
      BY <1>3, <1>6
    <3> HIDE DEF b
    <3>2. remover' = [remover EXCEPT !.stack = b, !.ret = "SUCCESS"]
      BY <1>2, <1>6, <3>1 DEF RemoverType
    <3> QED BY <3>2 DEF b, Topped
  <2>3. AloneKnows(remover, fs) => "SUCCESS" = "SUCCESS" /\ FrameAlone(f1, {}, TRUE, fs)
    BY <1>1, <1>2, <1>4 DEF FrameAlone
  <2>4. CallsKept(remover, remover', fs, fs)
    BY <1>2, <1>4, <1>5, <2>1, <2>2, <2>3, ToppedKeeps
  <2> QED BY <1>6, <2>4
<1>7. CASE remover.ret # "SUCCESS"
  <2>1. ~AloneKnows(remover, fs)
    BY <1>2, <1>7
  <2>2. CallsKept(remover, PoppedTo(remover, remover.ret), fs, fs)
    BY <1>1, <1>2, <1>5, <2>1, PopKeeps
  <2>3. remover'.ret = remover.ret
    BY <1>2, <1>3, <1>7 DEF PoppedTo, RemoverType
  <2> QED BY <1>3, <1>7, <2>2, <2>3
<1> QED BY <1>6, <1>7

LEMMA ContentReturnsKeeps ==
  ASSUME TreeInv, ContentReturns
  PROVE  /\ CallsKept(remover, remover', fs, fs)
         /\ remover'.ret = remover.ret
<1> DEFINE f == Top
           st == remover.stack
           n == Len(st)
<1>1. st # <<>> /\ f.fn = "content" /\ f.at = "loop" /\ (f.todo = {} \/ remover.ret # "SUCCESS")
  BY DEF ContentReturns, Running
<1>2. /\ remover \in RemoverType /\ StackStands(remover) /\ n \in Nat \ {0}
      /\ st[n] = f /\ f \in Frames /\ FrameStands(f, n) /\ f.path \in Seq(Names)
      /\ AloneKnows(remover, fs) => FrameAlone(f, {}, TRUE, fs) /\ remover.ret = "SUCCESS"
  BY <1>1, TopOf
<1>3. remover' = PoppedTo(remover, remover.ret) /\ remover.ret \in Results
  BY <1>2 DEF ContentReturns, Returns, PoppedTo, RemoverType
<1> HIDE DEF f
<1>4. n # 1
  <2>1. n = 2 * (Len(f.path) - Len(Target)) + 2 /\ Len(f.path) \in Nat /\ Len(Target) \in Nat
    BY <1>1, <1>2, TreeAssumption, LenProperties DEF FrameStands
  <2> HIDE DEF n
  <2> QED BY ONLY <2>1
<1>5. ASSUME AloneKnows(remover, fs) PROVE FrameAlone(st[n - 1], {}, TRUE, fs)
  <2> DEFINE g == st[n - 1]
  <2>1. n - 1 \in 1..n /\ n - 1 \in 1..n - 1 /\ (n - 1) + 1 = n /\ n - 1 # n
    <3>1. n \in Nat /\ n # 0 /\ n # 1
      BY <1>2, <1>4
    <3> HIDE DEF n
    <3> QED BY ONLY <3>1
  <2>2. WaitsFor(g, f)
    <3>1. WaitsFor(st[n - 1], st[(n - 1) + 1])
      BY <1>2, <2>1 DEF StackStands
    <3> QED BY <1>2, <2>1, <3>1
  <2>3. g.fn = "remove" /\ g.path = f.path /\ g.at \in {"remove", "emptied"}
    BY <1>1, <2>2 DEF WaitsFor
  <2>4. KindIn(fs, f.path) # "none" /\ HeldIn(fs, f.path) = {}
    BY <1>1, <1>2, <1>5 DEF FrameAlone, Listed
  <2> HIDE DEF g
  <2>5. FrameAlone(g, {}, TRUE, fs)
    BY <2>3, <2>4 DEF FrameAlone
  <2> QED BY <2>5 DEF g
<1>6. CallsKept(remover, PoppedTo(remover, remover.ret), fs, fs)
  BY <1>1, <1>2, <1>3, <1>4, <1>5, PopKeeps
<1>7. remover'.ret = remover.ret
  BY <1>2, <1>3 DEF PoppedTo, RemoverType
<1> QED BY <1>3, <1>6, <1>7

LEMMA BelowOn ==
  ASSUME NEW p \in Seq(Names), NEW m \in Names, Below(p)
  PROVE  Below(Append(p, m))
<1> DEFINE q == Append(p, m)
           T == Len(Target)
<1>1. q \in Seq(Names) /\ Len(q) = Len(p) + 1 /\ \A i \in 1..Len(p) : q[i] = p[i]
  BY AppendProperties
<1>2. Target \in Seq(Names) /\ T \in Nat /\ Len(p) \in Nat /\ Len(p) >= T /\ SubSeq(p, 1, T) = Target
  BY TreeAssumption, LenProperties DEF Below
<1> HIDE DEF q, T
<1>3. \A i \in 1..T : q[i] = p[i] /\ p[i] \in Names /\ q[i] \in Names
  <2>1. \A i \in 1..T : i \in 1..Len(p) /\ i \in 1..Len(q)
    BY <1>1, <1>2
  <2> QED BY <1>1, <2>1, ElementOfSeq
<1>4. /\ SubSeq(q, 1, T) \in Seq(Names) /\ Len(SubSeq(q, 1, T)) = T
      /\ \A i \in 1..T : SubSeq(q, 1, T)[i] = q[i]
  BY ONLY <1>2, <1>3, SubSeqProperties, SMTT(30)
<1>5. /\ SubSeq(p, 1, T) \in Seq(Names) /\ Len(SubSeq(p, 1, T)) = T
      /\ \A i \in 1..T : SubSeq(p, 1, T)[i] = p[i]
  BY <1>2, <1>3, SubSeqProperties
<1> DEFINE a == SubSeq(q, 1, T)
           b == SubSeq(p, 1, T)
<1>6. a = b
  <2>1. a \in Seq(Names) /\ b \in Seq(Names) /\ Len(a) = Len(b) /\ \A i \in 1..Len(a) : a[i] = b[i]
    BY <1>3, <1>4, <1>5
  <2> HIDE DEF a, b
  <2> QED BY <2>1, SeqEqual
<1>7. Len(q) >= T
  BY <1>1, <1>2
<1> QED BY <1>2, <1>6, <1>7 DEF Below, q, T

\* A call of remove for entry m of the directory f reads, at number n.
LEMMA RemoveStands ==
  ASSUME NEW f \in Frames, NEW n \in Nat, FrameStands(f, n), f.fn = "content", f.at = "loop",
         NEW m \in f.todo \cap Names
  PROVE  /\ FrameStands(RemoveFrame(Append(f.path, m)), n + 1)
         /\ Append(f.path, m) \in Seq(Names) /\ Append(f.path, m) # <<>>
         /\ f.path = Front(Append(f.path, m)) /\ Last(Append(f.path, m)) = m
<1> DEFINE p == Append(f.path, m)
           g == RemoveFrame(p)
<1>1. f.path \in Seq(Names) /\ Len(f.path) \in Nat /\ Len(Target) \in Nat
  BY TreeAssumption, LenProperties DEF Frames
<1>2. p \in Seq(Names) /\ p # <<>> /\ Len(p) = Len(f.path) + 1 /\ f.path = Front(p) /\ Last(p) = m
  BY <1>1, PathGrows
<1>3. n = 2 * (Len(f.path) - Len(Target)) + 2 /\ Len(f.path) + 1 <= MaxDepth /\ Below(f.path)
  BY DEF FrameStands, RoomIn
<1>4. Below(p)
  BY <1>1, <1>3, BelowOn
<1> HIDE DEF p
<1>5. g.fn = "remove" /\ g.path = p /\ g.at = "isDir"
  BY <1>2, ContentFrameIs
<1> HIDE DEF g
<1>6. n + 1 = 2 * (Len(p) - Len(Target)) + 1 /\ Len(p) <= MaxDepth
  BY <1>1, <1>2, <1>3
<1>7. FrameStands(g, n + 1)
  BY <1>4, <1>5, <1>6 DEF FrameStands
<1> QED BY <1>2, <1>7 DEF g, p

\* A frame in the place of one that was just put on top.
LEMMA Restacked ==
  ASSUME NEW r \in RemoverType, NEW e \in Frames, NEW g \in Frames, r.ret = "SUCCESS"
  PROVE  Topped(PushedOn(r, e), g, "SUCCESS") = PushedOn(r, g)
<1> DEFINE s == r.stack
           c == Append(s, e)
           d == Append(s, g)
<1>1. s \in Seq(Frames)
  BY DEF RemoverType
<1> HIDE DEF s
<1>2. Front(c) = s
  <2>1. /\ c \in Seq(Frames) /\ Len(c) = Len(s) + 1 /\ \A i \in 1..Len(s) : c[i] = s[i]
    BY <1>1, AppendProperties
  <2>2. Len(s) \in Nat /\ \A i \in 1..Len(s) : s[i] \in Frames
    BY <1>1, LenProperties, ElementOfSeq
  <2> HIDE DEF c
  <2>3. /\ SubSeq(c, 1, Len(s)) \in Seq(Frames) /\ Len(SubSeq(c, 1, Len(s))) = Len(s)
        /\ \A i \in 1..Len(s) : SubSeq(c, 1, Len(s))[i] = c[i]
    BY <2>1, <2>2, SubSeqProperties
  <2>4. SubSeq(c, 1, Len(s)) = s
    BY <1>1, <2>1, <2>3, SeqEqual
  <2>5. Len(c) - 1 = Len(s)
    BY <2>1, <2>2
  <2> QED BY <2>4, <2>5 DEF Front
<1>3. PushedOn(r, e) = [r EXCEPT !.stack = c] /\ PushedOn(r, g) = [r EXCEPT !.stack = d]
  BY DEF PushedOn, s
<1> HIDE DEF c
<1>4. [r EXCEPT !.stack = c].stack = c
  BY DEF RemoverType
<1>5. Topped(PushedOn(r, e), g, "SUCCESS") = [[r EXCEPT !.stack = c] EXCEPT !.stack = d, !.ret = "SUCCESS"]
  BY <1>2, <1>3, <1>4 DEF Topped
<1> HIDE DEF d
<1>6. [[r EXCEPT !.stack = c] EXCEPT !.stack = d, !.ret = "SUCCESS"] = [r EXCEPT !.stack = d]
  BY DEF RemoverType
<1> QED BY <1>3, <1>5, <1>6

LEMMA ContentNextKeeps ==
  ASSUME TreeInv, NEW m \in Names \cup {".", ".."}, ContentNext(m)
  PROVE  CallsKept(remover, remover', fs, fs) /\ remover.ret = "SUCCESS"
<1> DEFINE f == Top
           f1 == [f EXCEPT !.todo = f.todo \ {m}]
           n == Len(remover.stack)
           p == Append(f.path, m)
<1>1. remover.stack # <<>> /\ f.fn = "content" /\ f.at = "loop" /\ m \in f.todo /\ remover.ret = "SUCCESS"
  BY DEF ContentNext, Running
<1>2. /\ remover \in RemoverType /\ StackStands(remover) /\ n \in Nat \ {0}
      /\ remover.stack[n] = f /\ f \in Frames /\ FrameStands(f, n) /\ f.path \in Seq(Names)
      /\ AloneKnows(remover, fs) => FrameAlone(f, {}, TRUE, fs)
  BY <1>1, TopOf
<1>3. TreeStands(fs) /\ "SUCCESS" \in Results
  BY DEF TreeInv, Results
<1> DEFINE more == IF Skipped(m) THEN <<>> ELSE EntryFrames(p)
<1>4. remover' = WithCalls(remover, Append(Front(remover.stack), f1) \o more, "SUCCESS")
  <2> DEFINE b == Append(Front(remover.stack), f1) \o more
  <2>1. remover' = [remover EXCEPT !.stack = b]
    BY DEF ContentNext, Replace
  <2> HIDE DEF b
  <2>2. remover' = WithCalls(remover, b, "SUCCESS")
    BY <1>1, <1>2, <2>1 DEF RemoverType, WithCalls
  <2> QED BY <2>2 DEF b
<1> HIDE DEF f
<1>5. /\ f1 \in Frames /\ f1.fn = "content" /\ f1.path = f.path /\ f1.at = "loop"
      /\ f1.todo = f.todo \ {m}
  BY <1>1, <1>2 DEF Frames
<1> HIDE DEF f1
<1>6. FrameStands(f1, n) /\ GoesOn(remover, f1, "SUCCESS")
  <2>1. FrameStands(f1, n)
    BY <1>1, <1>2, <1>5 DEF FrameStands, RoomIn
  <2> QED BY <1>1, <1>2, <1>5, <2>1 DEF GoesOn
<1>7. AloneKnows(remover, fs) => KindIn(fs, f.path) = "dir" /\ Listed(f, {}, fs)
  BY <1>1, <1>2 DEF FrameAlone
<1>8. CASE Skipped(m)
  <2>1. m \notin Names
    BY <1>8, TreeAssumption DEF Skipped
  <2>2. more = <<>>
    BY <1>8
  <2> HIDE DEF more
  <2>3. remover' = Topped(remover, f1, "SUCCESS")
    BY <1>1, <1>3, <1>4, <1>5, <2>2, Stacked
  <2>4. AloneKnows(remover, fs) => "SUCCESS" = "SUCCESS" /\ FrameAlone(f1, {}, TRUE, fs)
    BY <1>5, <1>7, <2>1 DEF FrameAlone, Listed
  <2> QED BY <1>1, <1>2, <1>3, <1>5, <1>6, <2>3, <2>4, ToppedKeeps
<1>9. CASE ~Skipped(m)
  <2>1. m \in f.todo \cap Names
    BY <1>1, <1>9 DEF Skipped
  <2> DEFINE g == RemoveFrame(p)
  <2>2. /\ p \in Seq(Names) /\ p # <<>> /\ f.path = Front(p) /\ Last(p) = m
        /\ FrameStands(g, n + 1)
    BY <1>1, <1>2, <2>1, RemoveStands
  <2>3. more = EntryFrames(p)
    BY <1>9
  <2> HIDE DEF p, more
  <2>4. g \in Frames /\ g.fn = "remove" /\ g.path = p /\ g.at = "isDir"
    BY <2>2, ContentFrameIs
  <2>5. WaitsFor(f1, g)
    BY <1>5, <2>2, <2>4 DEF WaitsFor
  <2>6. ASSUME AloneKnows(remover, fs)
        PROVE  FrameAlone(f1, {Last(g.path)}, FALSE, fs) /\ FrameAlone(g, {}, TRUE, fs)
    <3>1. Listed(f1, {m}, fs) /\ m \in HeldIn(fs, f.path)
      BY <1>5, <1>7, <2>1, <2>6 DEF Listed
    <3>2. KindIn(fs, p) # "none"
      BY <3>1 DEF HeldIn, p
    <3> QED BY <1>5, <1>7, <2>2, <2>4, <2>6, <3>1, <3>2 DEF FrameAlone
  <2> DEFINE s == PushedOn(Topped(remover, f1, "SUCCESS"), g)
  <2>7. /\ CallsKept(remover, s, fs, fs) /\ s.ret = "SUCCESS" /\ s.stack # <<>>
        /\ Len(s.stack) = n + 1 /\ s.stack[n + 1] = g
    <3>1. /\ remover \in RemoverType /\ f1 \in Frames /\ g \in Frames /\ StackStands(remover)
          /\ GoesOn(remover, f1, "SUCCESS") /\ FrameStands(g, Len(remover.stack) + 1)
          /\ WaitsFor(f1, g)
      BY <1>2, <1>5, <1>6, <2>2, <2>4, <2>5
    <3>2. AloneKnows(remover, fs) =>
             FrameAlone(f1, {Last(g.path)}, FALSE, fs) /\ FrameAlone(g, {}, TRUE, fs)
      BY <2>6
    <3> HIDE DEF g
    <3>3. /\ CallsKept(remover, PushedOn(Topped(remover, f1, "SUCCESS"), g), fs, fs)
          /\ PushedOn(Topped(remover, f1, "SUCCESS"), g).ret = "SUCCESS"
          /\ PushedOn(Topped(remover, f1, "SUCCESS"), g).stack # <<>>
          /\ Len(PushedOn(Topped(remover, f1, "SUCCESS"), g).stack) = Len(remover.stack) + 1
          /\ PushedOn(Topped(remover, f1, "SUCCESS"), g).stack[Len(remover.stack) + 1] = g
      BY ONLY <3>1, <3>2, PushKeeps
    <3> QED BY <3>3
  <2>8. CASE ~FileSystem_isDirectory(p)
    <3>1. more = <<g>>
      BY <2>3, <2>8 DEF EntryFrames
    <3>2. remover' = s
      <4> HIDE DEF g
      <4>1. TreeInv /\ remover.stack # <<>> /\ f1 \in Frames /\ g \in Frames /\ "SUCCESS" \in Results
        BY <1>1, <1>3, <1>5, <2>4
      <4>2. WithCalls(remover, Append(Front(remover.stack), f1) \o <<g>>, "SUCCESS")
              = PushedOn(Topped(remover, f1, "SUCCESS"), g)
        BY ONLY <4>1, Stacked
      <4> QED BY <1>4, <3>1, <4>2
    <3> QED BY <1>1, <2>7, <3>2
  <2>9. CASE FileSystem_isDirectory(p)
    <3> DEFINE e == [g EXCEPT !.at = "emptied"]
               h == ContentFrame(p)
    <3>1. more = <<e, h>>
      BY <2>3, <2>9 DEF EntryFrames
    <3>2. h \in Frames /\ h.fn = "content" /\ h.path = p /\ h.at = "isDir"
      BY <2>2, ContentFrameIs
    <3> HIDE DEF g, h
    <3>3. e \in Frames /\ e.fn = "remove" /\ e.path = p /\ e.at = "emptied"
      BY <2>4 DEF Frames
    <3> HIDE DEF e
    <3>4. remover' = PushedOn(PushedOn(Topped(remover, f1, "SUCCESS"), e), h)
      <4>1. /\ TreeInv /\ remover.stack # <<>> /\ f1 \in Frames /\ e \in Frames /\ h \in Frames
            /\ "SUCCESS" \in Results
        BY <1>1, <1>3, <1>5, <3>2, <3>3
      <4>2. WithCalls(remover, Append(Front(remover.stack), f1) \o <<e, h>>, "SUCCESS")
              = PushedOn(PushedOn(Topped(remover, f1, "SUCCESS"), e), h)
        BY ONLY <4>1, Stacked, ZenonT(60)
      <4> QED BY <1>4, <3>1, <4>2
    <3>5. remover' = PushedOn(Topped(s, e, "SUCCESS"), h)
      <4>1. Topped(remover, f1, "SUCCESS") \in RemoverType /\ Topped(remover, f1, "SUCCESS").ret = "SUCCESS"
        BY <1>2, <1>3, <1>5, <1>6, ToppedIs
      <4>2. Topped(s, e, "SUCCESS") = PushedOn(Topped(remover, f1, "SUCCESS"), e)
        BY <2>4, <3>3, <4>1, Restacked
      <4> QED BY <3>4, <4>2
    <3> HIDE DEF s
    <3>6. s \in RemoverType /\ StackStands(s) /\ (AloneKnows(remover, fs) => AloneKnows(s, fs))
      BY <2>7 DEF CallsKept
    <3>7. FrameStands(e, n + 1)
      BY <2>2, <2>4, <3>3 DEF FrameStands
    <3>8. GoesOn(s, e, "SUCCESS")
      BY <2>4, <2>7, <3>3, <3>7 DEF GoesOn
    <3>9. FrameStands(h, Len(s.stack) + 1) /\ WaitsFor(e, h)
      <4>1. n + 1 \in Nat
        BY <1>2
      <4>2. FrameStands(ContentFrame(e.path), (n + 1) + 1) /\ WaitsFor(e, ContentFrame(e.path))
        <5> HIDE DEF n
        <5> QED BY <3>3, <3>7, <4>1, ContentStands
      <4> QED BY <2>7, <3>3, <4>2 DEF h
    <3>10. ASSUME AloneKnows(s, fs)
           PROVE  FrameAlone(e, {Last(h.path)}, FALSE, fs) /\ FrameAlone(h, {}, TRUE, fs)
      <4>1. KindIn(fs, p) = "dir"
        BY <1>3, <2>2, <2>9, DirectoryIs, Looked
      <4> QED BY <3>2, <3>3, <4>1 DEF FrameAlone
    <3>11. CallsKept(s, PushedOn(Topped(s, e, "SUCCESS"), h), fs, fs)
      BY <3>2, <3>3, <3>6, <3>8, <3>9, <3>10, PushKeeps
    <3> QED BY <1>1, <3>5, <3>6, <3>11 DEF CallsKept
  <2> QED BY <2>8, <2>9
<1> QED BY <1>8, <1>9

\* A step of the remover keeps what is known, and removes only what is below the
\* target and only after a success.
LEMMA RemoverStepKeeps ==
  ASSUME TreeInv, RemoverStep
  PROVE  /\ CallsKept(remover, remover', fs, fs') /\ TreeStands(fs')
         /\ maker' = maker /\ other' = other
         /\ (fs' = fs /\ cleared' = cleared) \/ cleared' = TRUE
         /\ remover.ret # "SUCCESS" => remover'.ret # "SUCCESS" /\ fs' = fs
         /\ \A p \in DOMAIN fs : ~Below(p) => p \in DOMAIN fs' /\ fs'[p] = fs[p]
<1>1. remover.stack # <<>> /\ TreeStands(fs)
  BY DEF RemoverStep, TreeInv
<1> DEFINE Still == maker' = maker /\ other' = other
           Rest == UNCHANGED <<fs, maker, other, cleared>>
           Calm == /\ CallsKept(remover, remover', fs, fs)
                   /\ remover.ret # "SUCCESS" => remover'.ret # "SUCCESS"
<1>2. ASSUME Rest, Calm
      PROVE  /\ CallsKept(remover, remover', fs, fs') /\ TreeStands(fs') /\ Still
             /\ fs' = fs /\ cleared' = cleared
             /\ remover.ret # "SUCCESS" => remover'.ret # "SUCCESS" /\ fs' = fs
             /\ \A p \in DOMAIN fs : ~Below(p) => p \in DOMAIN fs' /\ fs'[p] = fs[p]
  BY <1>1, <1>2
<1>3. \/ RemoveRemoves
      \/ RemoveLooks \/ ContentLooks \/ ContentOpens
      \/ (\E n \in Names \cup {".", ".."} : ContentNext(n)) \/ ContentRemoves \/ ContentReturns
  BY DEF RemoverStep
<1>4. remover.ret # "SUCCESS" => Waits(Top)
  BY <1>1, TopOf
<1>5. CASE RemoveRemoves
  <2>1. Still
    BY <1>5 DEF RemoveRemoves
  <2>2. /\ CallsKept(remover, remover', fs, fs') /\ TreeStands(fs')
        /\ remover'.ret # "SUCCESS" => fs' = fs
        /\ remover.ret # "SUCCESS" => remover'.ret # "SUCCESS"
        /\ (fs' = fs /\ cleared' = cleared) \/ cleared' = TRUE
        /\ \A p \in DOMAIN fs : ~Below(p) => p \in DOMAIN fs' /\ fs'[p] = fs[p]
    BY <1>5, RemoveRemovesKeeps
  <2> QED BY <2>1, <2>2
<1>6. CASE RemoveLooks
  <2>1. Top.at = "isDir" /\ Rest
    BY <1>6 DEF RemoveLooks, Running
  <2>2. remover.ret = "SUCCESS"
    BY <1>4, <2>1 DEF Waits
  <2>3. Calm
    BY <1>6, <2>2, RemoveLooksKeeps
  <2> QED BY <1>2, <2>1, <2>3
<1>7. CASE ContentLooks
  <2>1. Top.at = "isDir" /\ Rest
    BY <1>7 DEF ContentLooks, Running
  <2>2. remover.ret = "SUCCESS"
    BY <1>4, <2>1 DEF Waits
  <2>3. Calm
    BY <1>7, <2>2, ContentLooksKeeps
  <2> QED BY <1>2, <2>1, <2>3
<1>8. CASE ContentOpens
  <2>1. Top.at = "open" /\ Rest
    BY <1>8 DEF ContentOpens, Running
  <2>2. remover.ret = "SUCCESS"
    BY <1>4, <2>1 DEF Waits
  <2>3. Calm
    BY <1>8, <2>2, ContentOpensKeeps
  <2> QED BY <1>2, <2>1, <2>3
<1>9. CASE \E n \in Names \cup {".", ".."} : ContentNext(n)
  <2>1. PICK n \in Names \cup {".", ".."} : ContentNext(n)
    BY <1>9
  <2>2. Rest
    BY <2>1 DEF ContentNext
  <2>3. Calm
    BY <2>1, ContentNextKeeps
  <2> QED BY <1>2, <2>2, <2>3
<1>10. CASE ContentRemoves
  <2>1. Rest
    BY <1>10 DEF ContentRemoves
  <2>2. Calm
    BY <1>10, ContentRemovesKeeps
  <2> QED BY <1>2, <2>1, <2>2
<1>11. CASE ContentReturns
  <2>1. Rest
    BY <1>11 DEF ContentReturns
  <2>2. Calm
    BY <1>11, ContentReturnsKeeps
  <2> QED BY <1>2, <2>1, <2>2
<1> QED BY <1>3, <1>5, <1>6, <1>7, <1>8, <1>9, <1>10, <1>11

\* FileSystem_remove is called.
LEMMA CallKeeps ==
  ASSUME TreeInv, FileSystem_remove
  PROVE  CallsKept(remover, remover', fs, fs)
<1> DEFINE g == RemoveFrame(Target)
           s == <<g>>
<1>1. remover.stack = <<>> /\ remover.calls = 0
      /\ remover' = [remover EXCEPT !.stack = s, !.ret = "SUCCESS", !.calls = 1]
  BY DEF FileSystem_remove
<1>2. remover \in RemoverType /\ TreeStands(fs)
  BY DEF TreeInv
<1>3. Target \in Seq(Names) /\ Target # <<>> /\ Len(Target) \in Nat
  BY TreeAssumption, LenProperties
<1>4. g \in Frames /\ g.fn = "remove" /\ g.path = Target /\ g.at = "isDir"
  BY <1>3 DEF Frames, RemoveFrame
<1> HIDE DEF g
<1>5. s \in Seq(Frames) /\ Len(s) = 1 /\ s[1] = g /\ s # <<>>
  BY <1>4
<1> HIDE DEF s
<1>6. /\ remover' \in RemoverType /\ remover'.stack = s /\ remover'.ret = "SUCCESS"
      /\ remover'.calls = 1
  BY <1>1, <1>2, <1>5 DEF RemoverType, Results
<1>7. FrameStands(g, 1)
  <2>1. Below(Target)
    BY <1>3, WholeBeginning DEF Below
  <2>2. Len(Target) <= MaxDepth
    BY TreeAssumption
  <2> QED BY <1>3, <1>4, <2>1, <2>2 DEF FrameStands
<1>8. StackStands(remover')
  <2>1. ASSUME NEW k \in 1..Len(s) PROVE k = 1
    BY <1>5, <2>1
  <2>2. 1..Len(s) - 1 = {}
    BY <1>5
  <2> QED BY <1>5, <1>6, <1>7, <2>1, <2>2 DEF StackStands
<1>9. ASSUME AloneKnows(remover, fs) PROVE AloneKnows(remover', fs)
  <2>1. KindIn(fs, Target) # "none"
    BY <1>1, <1>9 DEF AloneKnows
  <2>2. FrameAlone(g, {}, TRUE, fs)
    BY <1>4, <2>1 DEF FrameAlone
  <2>3. ASSUME NEW k \in 1..Len(s) PROVE FrameKnows(remover', k, fs)
    <3>1. k = 1 /\ ~(k < Len(s)) /\ k = Len(s)
      BY <1>5
    <3> QED BY <1>5, <1>6, <2>2, <3>1 DEF FrameKnows, Missing
  <2>4. \A k \in 1..Len(remover'.stack) : FrameKnows(remover', k, fs)
    BY <1>6, <2>3
  <2>5. remover'.ret = "SUCCESS" /\ remover'.calls # 0 /\ remover'.stack # <<>>
    BY <1>5, <1>6
  <2> HIDE DEF g
  <2> QED BY ONLY <2>4, <2>5 DEF AloneKnows
<1> QED BY <1>6, <1>8, <1>9 DEF CallsKept

-----------------------------------------------------------------------------
(* The processes that make directories.                                      *)

\* The path that a process is at.
LEMMA AtPrefix ==
  ASSUME NEW m, m \in MakerType, MakerStands(m, fs, cleared), m.at # "idle"
  PROVE  /\ m.path \in ToMake /\ m.path \in Seq(Names) /\ m.path # <<>> /\ Len(m.path) \in Nat
         /\ m.i \in 1..Len(m.path) /\ m.i \in Nat /\ m.i <= Len(m.path)
         /\ Way(m, m.i) \in Seq(Names) /\ Way(m, m.i) # <<>> /\ Way(m, m.i) \in Directories
         /\ Way(m, m.i - 1) = Front(Way(m, m.i))
         /\ Way(m, Len(m.path)) = m.path
<1>1. /\ m.path \in ToMake /\ m.path \in Seq(Names) /\ m.i \in 1..Len(m.path)
      /\ m.path # <<>> /\ Len(m.path) \in Nat
  BY TreeAssumption, LenProperties DEF MakerStands, MakerType
<1> DEFINE p == m.path
           i == m.i
<1>2. /\ SubSeq(p, 1, i) \in Seq(Names) /\ SubSeq(p, 1, i) # <<>> /\ p[i] \in Names
      /\ SubSeq(p, 1, i - 1) \in Seq(Names)
      /\ SubSeq(p, 1, i) = Append(SubSeq(p, 1, i - 1), p[i])
  <2>1. p \in Seq(Names) /\ i \in 1..Len(p)
    BY <1>1
  <2> HIDE DEF p, i
  <2> QED BY <2>1, BeginningGrows
<1>3. SubSeq(p, 1, i - 1) = Front(SubSeq(p, 1, i))
  BY <1>2, PathGrows
<1>4. SubSeq(p, 1, Len(p)) = p
  BY <1>1, WholeBeginning
<1>5. SubSeq(p, 1, i) \in Directories
  BY <1>1 DEF Directories
<1>6. m.i \in Nat /\ m.i <= Len(m.path)
  BY ONLY <1>1
<1>7. /\ Way(m, m.i) \in Seq(Names) /\ Way(m, m.i) # <<>> /\ Way(m, m.i) \in Directories
      /\ Way(m, m.i - 1) = Front(Way(m, m.i)) /\ Way(m, Len(m.path)) = m.path
  BY ONLY <1>2, <1>3, <1>4, <1>5 DEF Way, p, i
<1> QED BY <1>1, <1>6, <1>7

\* What process m does next, after component i of its path.
OnwardOf(m) ==
    IF m.i = Len(m.path) THEN [m EXCEPT !.at = "check"]
    ELSE [m EXCEPT !.i = m.i + 1, !.at = IF m.i + 1 = Len(m.path) THEN "make" ELSE "look"]

\* It goes on when its component stands, or when something is in its way.
LEMMA OnwardStands ==
  ASSUME NEW m, m \in MakerType, NEW t, NEW lost, m.at \in {"look", "make"},
         m.path \in ToMake, Len(m.path) \in Nat, m.i \in 1..Len(m.path),
         lost \/ Obstructed(m, t)
           \/ ((\A i \in 1..m.i - 1 : KindIn(t, Way(m, i)) = "dir") /\ KindIn(t, Way(m, m.i)) = "dir")
  PROVE  OnwardOf(m) \in MakerType /\ MakerStands(OnwardOf(m), t, lost)
<1> DEFINE w == OnwardOf(m)
<1>1. m.i \in Nat /\ m.i <= Len(m.path) /\ m.path \in Seq(Names)
  BY DEF MakerType
<1>2. CASE m.i = Len(m.path)
  <2>1. w = [m EXCEPT !.at = "check"]
    BY <1>2 DEF OnwardOf
  <2> HIDE DEF w
  <2>2. w \in MakerType /\ w.path = m.path /\ w.i = m.i /\ w.at = "check"
    BY <1>1, <2>1 DEF MakerType
  <2>3. lost \/ Obstructed(w, t) \/ HasMade(w, t)
    <3>1. Obstructed(m, t) => Obstructed(w, t)
      BY <2>2 DEF Obstructed, Way
    <3>2. ASSUME NEW i \in 1..Len(w.path), \A j \in 1..m.i - 1 : KindIn(t, Way(m, j)) = "dir",
                 KindIn(t, Way(m, m.i)) = "dir"
          PROVE  KindIn(t, Way(w, i)) = "dir"
      <4>1. i = m.i \/ i \in 1..m.i - 1
        BY <1>1, <1>2, <2>2
      <4>2. KindIn(t, Way(m, i)) = "dir"
        BY <3>2, <4>1
      <4> QED BY <2>2, <4>2 DEF Way
    <3>3. Made(w) = Len(w.path)
      BY <2>2 DEF Made
    <3> QED BY <2>2, <3>1, <3>2, <3>3 DEF HasMade
  <2>4. MakerStands(w, t, lost)
    BY <1>2, <2>2, <2>3 DEF MakerStands
  <2> QED BY <2>2, <2>4 DEF w
<1>3. CASE m.i # Len(m.path)
  <2> DEFINE at == IF m.i + 1 = Len(m.path) THEN "make" ELSE "look"
  <2>1. w = [m EXCEPT !.i = m.i + 1, !.at = at]
    BY <1>3 DEF OnwardOf
  <2>2. at \in {"look", "make"}
    OBVIOUS
  <2> HIDE DEF w, at
  <2>3. w \in MakerType /\ w.path = m.path /\ w.i = m.i + 1 /\ w.at \in {"look", "make"}
    <3> DEFINE k == m.i + 1
    <3>1. k \in Nat /\ w = [m EXCEPT !.i = k, !.at = at]
      BY <1>1, <2>1
    <3> HIDE DEF k
    <3>2. w \in MakerType /\ w.path = m.path /\ w.i = k /\ w.at = at
      BY <2>2, <3>1 DEF MakerType
    <3> QED BY <2>2, <3>2 DEF k
  <2>4. w.i \in 1..Len(w.path) /\ Made(w) = m.i
    <3>1. Made(w) = w.i - 1
      BY <2>3 DEF Made
    <3> QED BY <1>1, <1>3, <2>3, <3>1
  <2>5. lost \/ Obstructed(w, t) \/ HasMade(w, t)
    <3>1. Obstructed(m, t) => Obstructed(w, t)
      BY <2>3 DEF Obstructed, Way
    <3>2. ASSUME NEW i \in 1..Made(w), \A j \in 1..m.i - 1 : KindIn(t, Way(m, j)) = "dir",
                 KindIn(t, Way(m, m.i)) = "dir"
          PROVE  KindIn(t, Way(w, i)) = "dir"
      <4>1. i = m.i \/ i \in 1..m.i - 1
        BY <1>1, <2>4
      <4>2. KindIn(t, Way(m, i)) = "dir"
        BY <3>2, <4>1
      <4> QED BY <2>3, <4>2 DEF Way
    <3> QED BY <2>3, <3>1, <3>2 DEF HasMade
  <2>6. MakerStands(w, t, lost)
    BY <2>3, <2>4, <2>5 DEF MakerStands
  <2> QED BY <2>3, <2>6 DEF w
<1> QED BY <1>2, <1>3

\* One process steps, the others stand on.
LEMMA OthersStand ==
  ASSUME TreeInv, NEW m \in Makers, NEW w \in MakerType, maker' = [maker EXCEPT ![m] = w],
         MakerStands(w, fs', cleared'), cleared' = cleared, Grows
  PROVE  /\ maker' \in [Makers -> MakerType]
         /\ \A n \in Makers : MakerStands(maker'[n], fs', cleared')
<1>1. maker \in [Makers -> MakerType] /\ \A n \in Makers : MakerStands(maker[n], fs, cleared)
  BY DEF TreeInv
<1>2. ASSUME NEW n \in Makers PROVE MakerStands(maker'[n], fs', cleared')
  <2>1. CASE n = m
    BY <1>1, <2>1
  <2>2. CASE n # m
    <3>1. maker'[n] = maker[n]
      BY <1>1, <2>2
    <3>2. MakerStands(maker[n], fs', cleared')
      BY <1>1, MakerStandsOn
    <3> QED BY <3>1, <3>2
  <2> QED BY <2>1, <2>2
<1> QED BY <1>1, <1>2

LEMMA MakerStarts ==
  ASSUME TreeInv, NEW m \in Makers, NEW p \in ToMake, FileSystem_makeDirectories(m, p)
  PROVE  /\ maker' \in [Makers -> MakerType] /\ maker'[m].at # "idle"
         /\ \A n \in Makers : MakerStands(maker'[n], fs', cleared')
<1> DEFINE at == IF Len(p) = 1 THEN "make" ELSE "look"
           w == [path |-> p, i |-> 1, at |-> at, result |-> FALSE]
<1>1. maker' = [maker EXCEPT ![m] = w] /\ fs' = fs /\ cleared' = cleared
  BY DEF FileSystem_makeDirectories
<1>2. p \in Seq(Names) /\ Len(p) \in Nat \ {0}
  BY TreeAssumption, LenProperties, EmptySeq
<1>3. at \in {"look", "make"}
  OBVIOUS
<1> HIDE DEF at
<1>4. w \in MakerType /\ w.path = p /\ w.i = 1 /\ w.at = at
  BY <1>2, <1>3 DEF MakerType
<1> HIDE DEF w
<1>5. MakerStands(w, fs', cleared')
  <2>1. Made(w) = 0
    BY <1>3, <1>4 DEF Made
  <2>2. HasMade(w, fs')
    BY <1>3, <1>4, <2>1 DEF HasMade
  <2> QED BY <1>2, <1>3, <1>4, <2>2 DEF MakerStands
<1>6. Grows
  BY <1>1 DEF Grows
<1>7. maker \in [Makers -> MakerType]
  BY DEF TreeInv
<1>8. maker'[m].at # "idle"
  BY <1>1, <1>3, <1>4, <1>7
<1> QED BY <1>1, <1>4, <1>5, <1>6, <1>8, OthersStand

\* What a process that is under way knows of itself.
LEMMA UnderWay ==
  ASSUME TreeInv, NEW m \in Makers, maker[m].at # "idle"
  PROVE  /\ maker[m] \in MakerType /\ MakerStands(maker[m], fs, cleared)
         /\ Prefix(m) = Way(maker[m], maker[m].i) /\ Onward(m) = OnwardOf(maker[m])
BY DEF TreeInv, Prefix, Way, Onward, OnwardOf

LEMMA MakerLooksKeeps ==
  ASSUME TreeInv, NEW m \in Makers, MakerLooks(m)
  PROVE  /\ maker' \in [Makers -> MakerType] /\ maker'[m].at # "idle"
         /\ \A n \in Makers : MakerStands(maker'[n], fs', cleared')
<1> DEFINE v == maker[m]
           isDir == FileSystem_isDirectory(Prefix(m))
           w == IF isDir THEN OnwardOf(v) ELSE [v EXCEPT !.at = "make"]
<1>1. v.at = "look" /\ fs' = fs /\ cleared' = cleared
  BY DEF MakerLooks
<1>2. /\ v \in MakerType /\ MakerStands(v, fs, cleared)
      /\ Prefix(m) = Way(v, v.i) /\ Onward(m) = OnwardOf(v)
  BY <1>1, UnderWay
<1>3. maker' = [maker EXCEPT ![m] = w]
  BY <1>2 DEF MakerLooks
<1>4. /\ v.path \in ToMake /\ Len(v.path) \in Nat /\ v.i \in 1..Len(v.path)
      /\ Way(v, v.i) \in Seq(Names)
  <2> HIDE DEF v
  <2> QED BY <1>1, <1>2, AtPrefix
<1>5. isDir <=> KindIn(fs, Way(v, v.i)) = "dir"
  <2>1. TreeStands(fs)
    BY DEF TreeInv
  <2> QED BY <1>2, <1>4, <2>1, DirectoryIs, Looked
<1>6. cleared \/ Obstructed(v, fs) \/ (\A i \in 1..v.i - 1 : KindIn(fs, Way(v, i)) = "dir")
  BY <1>1, <1>2 DEF MakerStands, HasMade, Made
<1>7. maker \in [Makers -> MakerType]
  BY DEF TreeInv
<1> HIDE DEF v, isDir
<1>8. w \in MakerType /\ w.at # "idle" /\ MakerStands(w, fs, cleared)
  <2>1. CASE isDir
    <3>1. OnwardOf(v) \in MakerType /\ MakerStands(OnwardOf(v), fs, cleared)
      BY <1>1, <1>2, <1>4, <1>5, <1>6, <2>1, OnwardStands
    <3>2. OnwardOf(v).at # "idle"
      BY <1>2 DEF OnwardOf, MakerType
    <3> QED BY <2>1, <3>1, <3>2
  <2>2. CASE ~isDir
    <3>1. w = [v EXCEPT !.at = "make"]
      BY <2>2
    <3> HIDE DEF w
    <3>2. w \in MakerType /\ w.path = v.path /\ w.i = v.i /\ w.at = "make"
      BY <1>2, <3>1 DEF MakerType
    <3>3. Made(w) = v.i - 1
      BY <3>2 DEF Made
    <3>4. (Obstructed(v, fs) => Obstructed(w, fs))
          /\ ((\A i \in 1..v.i - 1 : KindIn(fs, Way(v, i)) = "dir") => HasMade(w, fs))
      BY <3>2, <3>3 DEF Obstructed, HasMade, Way
    <3> QED BY <1>4, <1>6, <3>2, <3>4 DEF MakerStands
  <2> QED BY <2>1, <2>2
<1> HIDE DEF w
<1>9. Grows
  BY <1>1 DEF Grows
<1>10. maker'[m].at # "idle"
  BY <1>3, <1>7, <1>8
<1> QED BY <1>1, <1>3, <1>8, <1>9, <1>10, OthersStand

LEMMA MakerMakes ==
  ASSUME TreeInv, NEW m \in Makers, FileSystem_makeDirectory(m)
  PROVE  /\ maker' \in [Makers -> MakerType] /\ maker'[m].at # "idle" /\ TreeStands(fs')
         /\ \A n \in Makers : MakerStands(maker'[n], fs', cleared')
<1> DEFINE v == maker[m]
           p == Way(v, v.i)
<1>1. v.at = "make" /\ cleared' = cleared /\ TreeStands(fs)
  BY DEF FileSystem_makeDirectory, TreeInv
<1>2. /\ v \in MakerType /\ MakerStands(v, fs, cleared)
      /\ Prefix(m) = p /\ Onward(m) = OnwardOf(v)
  BY <1>1, UnderWay
<1>3. /\ maker' = [maker EXCEPT ![m] = OnwardOf(v)]
      /\ fs' = IF CanMake(p) THEN WithNode(p, Node("dir", <<>>)) ELSE fs
  BY <1>2 DEF FileSystem_makeDirectory
<1>4. /\ v.path \in ToMake /\ Len(v.path) \in Nat /\ v.i \in 1..Len(v.path) /\ v.i \in Nat
      /\ p \in Seq(Names) /\ p # <<>> /\ p \in Directories /\ Way(v, v.i - 1) = Front(p)
      /\ Len(p) <= MaxDepth
  <2>1. /\ v.path \in ToMake /\ Len(v.path) \in Nat /\ v.i \in 1..Len(v.path) /\ v.i \in Nat
        /\ p \in Seq(Names) /\ p # <<>> /\ p \in Directories /\ Way(v, v.i - 1) = Front(p)
    <3> HIDE DEF v
    <3> QED BY <1>1, <1>2, AtPrefix
  <2>2. Len(p) = v.i
    <3>1. v.path \in Seq(Names)
      BY <1>2 DEF MakerType
    <3> HIDE DEF v
    <3> QED BY <2>1, <3>1, BeginningGrows DEF Way
  <2>3. Len(v.path) <= MaxDepth /\ MaxDepth \in Nat
    BY <2>1, TreeAssumption
  <2>4. v.i <= Len(v.path)
    BY ONLY <2>1
  <2> HIDE DEF v, p
  <2> QED BY <2>1, <2>2, <2>3, <2>4
<1>5. cleared \/ Obstructed(v, fs) \/ (\A i \in 1..v.i - 1 : KindIn(fs, Way(v, i)) = "dir")
  BY <1>1, <1>2 DEF MakerStands, HasMade, Made
<1>6. maker \in [Makers -> MakerType]
  BY DEF TreeInv
<1> HIDE DEF v, p
<1>7. /\ TreeStands(fs') /\ Grows
      /\ CanMake(p) => KindIn(fs', p) = "dir"
      /\ ~CanMake(p) => fs' = fs
  <2>1. CASE CanMake(p)
    <3>1. fs' = WithNode(p, Node("dir", <<>>))
      BY <1>3, <2>1
    <3>2. TreeStands(fs') /\ Becomes(p, "dir") /\ KindIn(fs, p) = "none"
      BY <1>1, <1>4, <2>1, <3>1, MakingIs
    <3> QED BY <2>1, <3>2 DEF Becomes, Grows
  <2>2. CASE ~CanMake(p)
    BY <1>1, <1>3, <2>2 DEF Grows
  <2> QED BY <2>1, <2>2
<1>8. Obstructed(v, fs) => Obstructed(v, fs')
  BY <1>7 DEF Grows, Obstructed
<1>9. ASSUME \A i \in 1..v.i - 1 : KindIn(fs, Way(v, i)) = "dir"
      PROVE  /\ Obstructed(v, fs') \/ KindIn(fs', p) = "dir"
             /\ \A i \in 1..v.i - 1 : KindIn(fs', Way(v, i)) = "dir"
  <2>1. KindIn(fs, Front(p)) = "dir"
    <3>1. CASE v.i = 1
      <4>1. v.path \in Seq(Names)
        BY <1>2 DEF MakerType
      <4>2. SubSeq(v.path, 1, 0) = <<>>
        BY <4>1, WholeBeginning
      <4>3. Front(p) = <<>>
        BY <1>4, <3>1, <4>2 DEF Way
      <4> QED BY <4>3 DEF KindIn
    <3>2. CASE v.i # 1
      <4>1. v.i - 1 \in 1..v.i - 1
        BY <1>4, <3>2
      <4> QED BY <1>4, <1>9, <4>1
    <3> QED BY <3>1, <3>2
  <2>2. CASE CanMake(p)
    BY <1>7, <1>9, <2>2 DEF Grows
  <2>3. CASE ~CanMake(p)
    <3>1. Entry(p) = {p}
      BY <1>1, <1>4, <2>1, EntryIs, Looked
    <3>2. KindIn(fs, p) # "none"
      BY <1>4, <2>3, <3>1, Looked DEF CanMake
    <3>3. KindIn(fs, p) # "dir" => Obstructed(v, fs)
      BY <1>4, <3>2 DEF Obstructed, p
    <3> QED BY <1>7, <1>8, <1>9, <2>3, <3>3
  <2> QED BY <2>2, <2>3
<1>10. OnwardOf(v) \in MakerType /\ MakerStands(OnwardOf(v), fs', cleared')
  <2>1. cleared' \/ Obstructed(v, fs')
           \/ ((\A i \in 1..v.i - 1 : KindIn(fs', Way(v, i)) = "dir") /\ KindIn(fs', Way(v, v.i)) = "dir")
    BY <1>1, <1>5, <1>8, <1>9 DEF p
  <2> QED BY <1>1, <1>2, <1>4, <2>1, OnwardStands
<1>11. OnwardOf(v).at # "idle"
  BY <1>2 DEF OnwardOf, MakerType
<1>12. maker'[m].at # "idle"
  BY <1>3, <1>6, <1>11
<1> QED BY <1>1, <1>3, <1>7, <1>10, <1>12, OthersStand

LEMMA MakerReturnsKeeps ==
  ASSUME TreeInv, NEW m \in Makers, MakerReturns(m)
  PROVE  /\ maker' \in [Makers -> MakerType] /\ maker'[m].at # "idle"
         /\ \A n \in Makers : MakerStands(maker'[n], fs', cleared')
<1> DEFINE v == maker[m]
           isDir == FileSystem_isDirectory(v.path)
           w == [v EXCEPT !.at = "returned", !.result = isDir]
<1>1. v.at = "check" /\ fs' = fs /\ cleared' = cleared /\ TreeStands(fs)
  BY DEF MakerReturns, TreeInv
<1>2. v \in MakerType /\ MakerStands(v, fs, cleared)
  BY <1>1, UnderWay
<1>3. maker \in [Makers -> MakerType]
  BY DEF TreeInv
<1>4. maker' = [maker EXCEPT ![m] = w]
  <2>1. maker' = [maker EXCEPT ![m].at = "returned", ![m].result = isDir]
    BY DEF MakerReturns
  <2> HIDE DEF isDir
  <2> QED BY <1>3, <2>1
<1>5. /\ v.path \in ToMake /\ v.path \in Seq(Names) /\ Len(v.path) \in Nat
      /\ v.i \in 1..Len(v.path) /\ Way(v, Len(v.path)) = v.path
  <2> HIDE DEF v
  <2> QED BY <1>1, <1>2, AtPrefix
<1>6. isDir \in BOOLEAN /\ (KindIn(fs, v.path) = "dir" => isDir)
  BY <1>1, <1>5, DirectoryIs, Looked DEF FileSystem_isDirectory
<1> HIDE DEF v, isDir
<1>7. /\ w \in MakerType /\ w.path = v.path /\ w.i = v.i /\ w.at = "returned"
      /\ w.result = isDir
  BY <1>2, <1>6 DEF MakerType
<1> HIDE DEF w
<1>8. cleared \/ Obstructed(v, fs) \/ (\A i \in 1..Len(v.path) : KindIn(fs, Way(v, i)) = "dir")
  BY <1>1, <1>2 DEF MakerStands, HasMade, Made
<1>9. MakerStands(w, fs, cleared)
  <2>1. Obstructed(v, fs) => Obstructed(w, fs)
    BY <1>7 DEF Obstructed, Way
  <2>2. ASSUME \A i \in 1..Len(v.path) : KindIn(fs, Way(v, i)) = "dir" PROVE HasMade(w, fs)
    <3>1. Len(v.path) \in 1..Len(v.path)
      BY <1>5
    <3>2. KindIn(fs, v.path) = "dir"
      BY <1>5, <2>2, <3>1
    <3>3. isDir
      BY <1>6, <3>2
    <3>4. Made(w) = Len(v.path)
      BY <1>7 DEF Made
    <3> QED BY <1>7, <2>2, <3>3, <3>4 DEF HasMade, Way
  <2>3. v.i = Len(v.path)
    BY <1>1, <1>2 DEF MakerStands
  <2> QED BY <1>5, <1>7, <1>8, <2>1, <2>2, <2>3 DEF MakerStands
<1>10. Grows
  BY <1>1 DEF Grows
<1>11. maker'[m].at # "idle"
  BY <1>3, <1>4, <1>7
<1> QED BY <1>1, <1>4, <1>7, <1>9, <1>10, <1>11, OthersStand

-----------------------------------------------------------------------------
(* The invariant holds, and gives what is checked.                           *)

LEMMA TreeBegins ==
  ASSUME NoLinksToDirectories, TreeInit
  PROVE  TreeInv
<1>1. fs \in Trees /\ remover = [stack |-> <<>>, ret |-> "SUCCESS", calls |-> 0, stopped |-> FALSE]
      /\ maker = [m \in Makers |-> Idle] /\ other = 0 /\ cleared = FALSE
  BY DEF TreeInit
<1>2. Target \in DOMAIN fs /\ \A p \in DOMAIN fs :
        /\ p \in Seq(Names) /\ p # <<>> /\ Len(p) <= MaxDepth
        /\ fs[p].kind \in {"file", "dir", "link"} /\ fs[p].to \in Seq(Names)
        /\ Len(p) = 1 \/ (Front(p) \in DOMAIN fs /\ fs[Front(p)].kind = "dir")
  BY <1>1, TreeAssumption
<1>3. ASSUME NEW p \in DOMAIN fs
      PROVE  /\ fs[p].kind = "dir" => p \in Directories
             /\ fs[p].kind = "link" => fs[p].to \notin Directories
             /\ KindIn(fs, Front(p)) = "dir"
  <2>1. p \in Seq(Names) /\ p # <<>>
        /\ (Len(p) = 1 \/ (Front(p) \in DOMAIN fs /\ fs[Front(p)].kind = "dir"))
    BY <1>2
  <2>2. Front(p) \in Seq(Names) /\ Len(p) = Len(Front(p)) + 1 /\ Len(Front(p)) \in Nat
    BY <2>1, PathParts, LenProperties
  <2>3. Len(p) = 1 => Front(p) = <<>>
    <3> DEFINE q == Front(p)
    <3>1. q \in Seq(Names) /\ (Len(p) = 1 => Len(q) = 0)
      BY <2>2
    <3> HIDE DEF q
    <3>2. Len(p) = 1 => q = <<>>
      BY <3>1, EmptySeq
    <3> QED BY <3>2 DEF q
  <2>4. fs[p].kind = "dir" => p \in Directories
    BY <1>1 DEF Directories
  <2>5. fs[p].kind = "link" => fs[p].to \notin Directories
    BY <1>1 DEF NoLinksToDirectories
  <2> QED BY <2>1, <2>3, <2>4, <2>5 DEF KindIn
<1>4. TreeStands(fs)
  BY <1>2, <1>3 DEF TreeStands
<1>5. remover \in RemoverType
  BY <1>1 DEF RemoverType, Results
<1>6. Idle \in MakerType /\ Idle.at = "idle" /\ Idle.i = 0
  BY EmptySeq DEF Idle, MakerType
<1>7. /\ maker \in [Makers -> MakerType]
      /\ \A m \in Makers : MakerStands(maker[m], fs, cleared)
  BY <1>1, <1>6 DEF MakerStands
<1>8. other \in 0..MaxOther /\ cleared \in BOOLEAN
  <2>1. MaxOther \in Nat /\ other = 0 /\ cleared = FALSE
    BY <1>1, TreeAssumption
  <2>2. other \in 0..MaxOther
    BY ONLY <2>1
  <2>3. cleared \in BOOLEAN
    BY ONLY <2>1, Zenon
  <2> QED BY <2>2, <2>3
<1>9. remover.stack = <<>> /\ remover.ret = "SUCCESS" /\ remover.calls = 0 /\ Len(<<>>) = 0
  BY <1>1
<1>10. StackStands(remover)
  <2>1. 1..Len(remover.stack) = {} /\ 1..Len(remover.stack) - 1 = {}
    BY <1>9
  <2> QED BY <1>9, <2>1 DEF StackStands
<1>11. AloneKnows(remover, fs)
  <2>1. KindIn(fs, Target) # "none"
    BY <1>2 DEF KindIn
  <2>2. 1..Len(remover.stack) = {}
    BY <1>9
  <2> QED BY <1>9, <2>1, <2>2 DEF AloneKnows
<1> QED BY <1>4, <1>5, <1>7, <1>8, <1>10, <1>11 DEF TreeInv

LEMMA OtherStepKeeps ==
  ASSUME TreeInv, NEW p \in Others, OtherMakes(p) \/ OtherRemoves(p)
  PROVE  TreeInv'
<1>1. /\ other < MaxOther /\ other' = other + 1 /\ remover' = remover /\ maker' = maker
      /\ (CanMake(p) /\ fs' = WithNode(p, Node("file", <<>>)) /\ cleared' = cleared)
           \/ (CanRemove(p) /\ fs' = Without(p) /\ cleared' = TRUE)
  BY DEF OtherMakes, OtherRemoves
<1>2. p \in Seq(Names) /\ p # <<>> /\ TreeStands(fs)
  BY TreeAssumption DEF TreeInv
<1>3. TreeStands(fs') /\ (cleared' = TRUE \/ (cleared' = cleared /\ Grows))
  <2>1. CASE CanMake(p) /\ fs' = WithNode(p, Node("file", <<>>)) /\ cleared' = cleared
    <3>1. TreeStands(fs') /\ Becomes(p, "file") /\ KindIn(fs, p) = "none"
      BY <1>2, <2>1, MakingIs
    <3> QED BY <2>1, <3>1 DEF Becomes, Grows
  <2>2. CASE CanRemove(p) /\ fs' = Without(p) /\ cleared' = TRUE
    BY <1>2, <2>2, RemovingIs
  <2> QED BY <1>1, <2>1, <2>2
<1>4. ASSUME NEW m \in Makers PROVE MakerStands(maker'[m], fs', cleared')
  <2>1. MakerStands(maker[m], fs, cleared)
    BY DEF TreeInv
  <2>2. MakerStands(maker[m], fs', cleared')
    BY <1>3, <2>1, MakerStandsOn
  <2> QED BY <1>1, <2>2
<1>5. other' \in 0..MaxOther /\ other' # 0 /\ cleared' \in BOOLEAN
  <2>1. other \in 0..MaxOther /\ MaxOther \in Nat /\ cleared \in BOOLEAN
    BY TreeAssumption DEF TreeInv
  <2>2. other < MaxOther /\ other' = other + 1
    BY <1>1
  <2>3. other' \in 0..MaxOther /\ other' # 0
    BY ONLY <2>1, <2>2
  <2> QED BY <1>1, <2>1, <2>3
<1>6. ~Undisturbed'
  BY <1>5 DEF Undisturbed
<1>7. /\ remover' \in RemoverType /\ maker' \in [Makers -> MakerType] /\ StackStands(remover')
  BY <1>1 DEF TreeInv
<1> QED BY <1>3, <1>4, <1>5, <1>6, <1>7 DEF TreeInv

LEMMA MakerStepKeeps ==
  ASSUME TreeInv, NEW m \in Makers,
         \/ \E p \in ToMake : FileSystem_makeDirectories(m, p)
         \/ MakerLooks(m) \/ FileSystem_makeDirectory(m) \/ MakerReturns(m)
  PROVE  TreeInv'
<1>1. remover' = remover /\ other' = other /\ cleared' = cleared
  BY DEF FileSystem_makeDirectories, MakerLooks, FileSystem_makeDirectory, MakerReturns
<1>2. /\ maker' \in [Makers -> MakerType] /\ maker'[m].at # "idle"
      /\ \A n \in Makers : MakerStands(maker'[n], fs', cleared')
  BY MakerStarts, MakerLooksKeeps, MakerMakes, MakerReturnsKeeps
<1>3. TreeStands(fs')
  <2>1. CASE FileSystem_makeDirectory(m)
    BY <2>1, MakerMakes
  <2>2. CASE ~FileSystem_makeDirectory(m)
    <3>1. fs' = fs
      BY <2>2 DEF FileSystem_makeDirectories, MakerLooks, MakerReturns
    <3> QED BY <3>1 DEF TreeInv
  <2> QED BY <2>1, <2>2
<1>4. ~Undisturbed'
  BY <1>2 DEF Undisturbed
<1>5. /\ remover' \in RemoverType /\ StackStands(remover')
      /\ other' \in 0..MaxOther /\ cleared' \in BOOLEAN
  BY <1>1 DEF TreeInv
<1> QED BY <1>2, <1>3, <1>4, <1>5 DEF TreeInv

LEMMA TreeStepKeeps ==
  ASSUME TreeInv, [TreeNext]_treeVars
  PROVE  TreeInv'
<1>1. CASE FileSystem_remove
  <2>1. UNCHANGED <<fs, maker, other, cleared>>
    BY <1>1 DEF FileSystem_remove
  <2>2. CallsKept(remover, remover', fs, fs)
    BY <1>1, CallKeeps
  <2>3. Undisturbed' => Undisturbed
    BY <2>1 DEF Undisturbed
  <2>4. \A m \in Makers : MakerStands(maker'[m], fs', cleared')
    BY <2>1 DEF TreeInv
  <2> QED BY <2>1, <2>2, <2>3, <2>4 DEF TreeInv, CallsKept
<1>2. CASE RemoverStep
  <2>1. /\ CallsKept(remover, remover', fs, fs') /\ TreeStands(fs')
        /\ maker' = maker /\ other' = other
        /\ (fs' = fs /\ cleared' = cleared) \/ cleared' = TRUE
    BY <1>2, RemoverStepKeeps
  <2>2. Undisturbed' => Undisturbed
    BY <2>1 DEF Undisturbed
  <2>3. cleared' = TRUE \/ (cleared' = cleared /\ Grows)
    BY <2>1 DEF Grows
  <2>4. ASSUME NEW m \in Makers PROVE MakerStands(maker'[m], fs', cleared')
    <3>1. MakerStands(maker[m], fs, cleared)
      BY DEF TreeInv
    <3>2. MakerStands(maker[m], fs', cleared')
      BY <2>3, <3>1, MakerStandsOn
    <3> QED BY <2>1, <3>2
  <2>5. maker' \in [Makers -> MakerType] /\ other' \in 0..MaxOther /\ cleared' \in BOOLEAN
    BY <2>1 DEF TreeInv
  <2> QED BY <2>1, <2>2, <2>4, <2>5 DEF TreeInv, CallsKept
<1>3. CASE \E m \in Makers :
             \/ \E p \in ToMake : FileSystem_makeDirectories(m, p)
             \/ MakerLooks(m) \/ FileSystem_makeDirectory(m) \/ MakerReturns(m)
  BY <1>3, MakerStepKeeps
<1>4. CASE \E p \in Others : OtherMakes(p) \/ OtherRemoves(p)
  BY <1>4, OtherStepKeeps
<1>5. CASE UNCHANGED treeVars
  <2>1. UNCHANGED <<fs, remover, maker, other, cleared>>
    BY <1>5 DEF treeVars
  <2>2. Undisturbed' => Undisturbed
    BY <2>1 DEF Undisturbed
  <2>3. \A m \in Makers : MakerStands(maker'[m], fs', cleared')
    BY <2>1 DEF TreeInv
  <2> QED BY <2>1, <2>2, <2>3 DEF TreeInv
<1> QED BY <1>1, <1>2, <1>3, <1>4, <1>5 DEF TreeNext

\* Every path is in a directory, and the calls are as deep as the tree at most.
LEMMA TreeShows ==
  ASSUME TreeInv
  PROVE  TreeTypeOK /\ MakersAgree /\ AloneItRemoves
<1>1. TreeStands(fs) /\ remover \in RemoverType /\ maker \in [Makers -> MakerType]
      /\ StackStands(remover) /\ \A m \in Makers : MakerStands(maker[m], fs, cleared)
  BY DEF TreeInv
<1>2. \A p : Kind(p) = KindIn(fs, p)
  BY Looked
<1>3. TreeTypeOK
  <2>1. \A p \in DOMAIN fs : Len(p) <= MaxDepth /\ Kind(Front(p)) = "dir"
    BY <1>1, <1>2 DEF TreeStands
  <2>2. Len(remover.stack) <= 2 * MaxDepth + 1
    <3>1. MaxDepth \in Nat /\ Target \in Seq(Names) /\ Target # <<>>
      BY TreeAssumption
    <3>2. CASE remover.stack = <<>>
      BY <3>1, <3>2
    <3>3. CASE remover.stack # <<>>
      <4>1. Len(remover.stack) \in Nat \ {0} /\ FrameStands(Top, Len(remover.stack))
            /\ Top \in Frames /\ Top.path \in Seq(Names)
        BY <3>3, TopOf
      <4>2. Len(Top.path) \in Nat /\ Len(Target) \in Nat \ {0}
        BY <3>1, <4>1, LenProperties, EmptySeq
      <4>3. Len(Top.path) <= MaxDepth
            /\ \/ Len(remover.stack) = 2 * (Len(Top.path) - Len(Target)) + 1
               \/ Len(remover.stack) = 2 * (Len(Top.path) - Len(Target)) + 2
        BY <4>1 DEF FrameStands, Frames
      <4> DEFINE k == Len(remover.stack)
                 l == Len(Top.path)
                 t == Len(Target)
      <4> HIDE DEF k, l, t
      <4>4. k <= 2 * MaxDepth + 1
        <5>1. l \in Nat /\ t \in Nat \ {0} /\ MaxDepth \in Nat /\ l <= MaxDepth /\ k \in Nat
              /\ (k = 2 * (l - t) + 1 \/ k = 2 * (l - t) + 2)
          BY <3>1, <4>1, <4>2, <4>3 DEF k, l, t
        <5> QED BY ONLY <5>1
      <4> QED BY <4>4 DEF k
    <3> QED BY <3>2, <3>3
  <2>3. remover.ret \in {"SUCCESS", "GENERICERROR", "NOTADIRECTORY"}
    BY <1>1 DEF RemoverType, Results
  <2>4. ASSUME NEW m \in Makers PROVE maker[m].i \in 0..Len(maker[m].path)
    <3>1. maker[m] \in MakerType /\ MakerStands(maker[m], fs, cleared)
      BY <1>1
    <3>2. Len(maker[m].path) \in Nat
      BY <3>1, LenProperties DEF MakerType
    <3> QED BY <3>1, <3>2 DEF MakerStands
  <2>5. other \in 0..MaxOther /\ cleared \in BOOLEAN
    BY DEF TreeInv
  <2> QED BY <2>1, <2>2, <2>3, <2>4, <2>5 DEF TreeTypeOK
<1>4. MakersAgree
  <2> SUFFICES ASSUME NEW m \in Makers, maker[m].at = "returned", ~maker[m].result, ~cleared
               PROVE  \E i \in 1..Len(maker[m].path) :
                        ~FileSystem_isDirectory(SubSeq(maker[m].path, 1, i))
                        /\ Kind(SubSeq(maker[m].path, 1, i)) # "none"
    BY DEF MakersAgree
  <2>1. maker[m] \in MakerType /\ Obstructed(maker[m], fs)
    BY <1>1 DEF MakerStands, HasMade
  <2>2. PICK i \in 1..Len(maker[m].path) : KindIn(fs, Way(maker[m], i)) \notin {"dir", "none"}
    BY <2>1 DEF Obstructed
  <2> DEFINE p == SubSeq(maker[m].path, 1, i)
  <2>3. p \in Seq(Names)
    BY <2>1, BeginningGrows DEF MakerType
  <2>4. Kind(p) \notin {"dir", "none"}
    BY <1>2, <2>2 DEF Way
  <2>5. ~FileSystem_isDirectory(p)
    BY <1>1, <2>3, <2>4, DirectoryIs
  <2> QED BY <2>4, <2>5
<1>5. AloneItRemoves
  <2> SUFFICES ASSUME remover.calls = 1, remover.stack = <<>>, other = 0,
                      \A m \in Makers : maker[m].at = "idle"
               PROVE  remover.ret = "SUCCESS" /\ Kind(Target) = "none"
    BY DEF AloneItRemoves
  <2>1. AloneKnows(remover, fs)
    BY DEF TreeInv, Undisturbed
  <2> QED BY <1>2, <2>1 DEF AloneKnows
<1> QED BY <1>3, <1>4, <1>5

\* Steps of the remover leave what is not below the target alone, and nothing
\* is removed once a call failed.
LEMMA TreeStepsAre ==
  ASSUME TreeInv, [TreeNext]_treeVars
  PROVE  /\ [RemoverStep => \A p \in DOMAIN fs : ~Below(p) => p \in DOMAIN fs' /\ fs'[p] = fs[p]]_treeVars
         /\ [remover.ret # "SUCCESS" /\ remover.stack # <<>>
               => remover'.ret # "SUCCESS" /\ (RemoverStep => fs' = fs)]_treeVars
<1>1. RemoverStep => /\ \A p \in DOMAIN fs : ~Below(p) => p \in DOMAIN fs' /\ fs'[p] = fs[p]
                     /\ remover.ret # "SUCCESS" => remover'.ret # "SUCCESS" /\ fs' = fs
  BY RemoverStepKeeps
<1>2. ~RemoverStep => remover.stack = <<>> \/ remover' = remover
  BY DEF TreeNext, treeVars, FileSystem_remove, FileSystem_makeDirectories, MakerLooks,
         FileSystem_makeDirectory, MakerReturns, OtherMakes, OtherRemoves
<1> QED BY <1>1, <1>2

\* Directories are made and removed next to each other without touching what is
\* not theirs (FileSystem_remove, FileSystem_makeDirectories): what TreeIsSafe
\* says, but for the end of every removal, for all trees in which no link leads
\* to where a directory is or will be made.
THEOREM TreeStaysSafe ==
    NoLinksToDirectories /\ TreeInit /\ [][TreeNext]_treeVars => (RemoveReturns => TreeIsSafe)
<1>1. NoLinksToDirectories /\ TreeInit => TreeInv
  BY TreeBegins
<1>2. TreeInv /\ [TreeNext]_treeVars => TreeInv'
  BY TreeStepKeeps
<1>3. TreeInv => TreeTypeOK /\ MakersAgree /\ AloneItRemoves
  BY TreeShows
<1>4. TreeInv /\ [TreeNext]_treeVars
        => [RemoverStep => \A p \in DOMAIN fs : ~Below(p) => p \in DOMAIN fs' /\ fs'[p] = fs[p]]_treeVars
  BY TreeStepsAre
<1>5. TreeInv /\ [TreeNext]_treeVars
        => [remover.ret # "SUCCESS" /\ remover.stack # <<>>
              => remover'.ret # "SUCCESS" /\ (RemoverStep => fs' = fs)]_treeVars
  BY TreeStepsAre
<1>6. NoLinksToDirectories /\ TreeInit /\ [][TreeNext]_treeVars => OutsideUntouched
  BY <1>1, <1>2, <1>4, PTL DEF OutsideUntouched
<1>7. NoLinksToDirectories /\ TreeInit /\ [][TreeNext]_treeVars => NothingAfterFailure
  BY <1>1, <1>2, <1>5, PTL DEF NothingAfterFailure
<1>8. NoLinksToDirectories /\ TreeInit /\ [][TreeNext]_treeVars
        => [](TreeTypeOK /\ MakersAgree /\ AloneItRemoves)
  BY <1>1, <1>2, <1>3, PTL
<1> QED BY <1>6, <1>7, <1>8 DEF TreeIsSafe
=============================================================================
