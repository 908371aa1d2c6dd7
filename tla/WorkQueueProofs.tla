--------------------------- MODULE WorkQueueProofs ---------------------------
(***************************************************************************)
(* Proofs about WorkQueue, for any clients, workers, tasks and limits: the  *)
(* bookkeeping of the team is right while clients and workers race, no task *)
(* is lost or run twice, and WorkQueue_clear frees the workers, the barrier *)
(* and the queue when no worker can touch them any more.                    *)
(***************************************************************************)
EXTENDS WorkQueue, FiniteSetTheorems, SequenceTheorems, TLAPS

\* The places of WorkQueue_enqueue under the mutex, those of a worker that has a
\* task, and those where it is counted as free.
Locked  == {"recheck", "list", "publish", "unlock"}
Engaged == {"taken", "running", "signalling"}
Free    == {"looping", "popping", "taken", "leaving", "terminating", "ended"}
InTeam  == {w \in WorkerIds : worker[w] # "none"}
FreeOnes == {w \in WorkerIds : worker[w] \in Free}

\* What each thread has in its hands, by where it is.
Hands ==
    /\ \A c \in Clients :
          /\ client[c] = "idle" <=> held[c] = None
          /\ client[c] = "list" <=> created[c] # None
    /\ \A w \in WorkerIds :
          /\ worker[w] \in Engaged <=> job[w] # None
          /\ popper[w] # "outside" => worker[w] = "popping"
    /\ clearer # "open" => Quiescent

\* The mutex protects what WorkQueue_enqueue does between Lock and Unlock if
\* there is a maximum, and every worker is listed or about to be.
Team ==
    /\ maxWorkers # 0 => \A c \in Clients : client[c] \in Locked => mutex = c
    /\ clearer \notin {"clearPool", "done"} =>
          \A w \in WorkerIds :
              worker[w] # "none" <=> w \in listed \/ \E c \in Clients : created[c] = w

TeamInv == TypeOK /\ Hands /\ Team /\ WorkersAreCounted

\* No task is at two places, and those that are enqueued are at one.
Queued(k)  == \E i \in 1..Len(elements) : elements[i] = k
Doing(w, k) == job[w] = k /\ worker[w] # "signalling"
Taken(k)   == \E w \in WorkerIds : Doing(w, k)
Spread(k)  ==
    \/ k \notin enqueued /\ runs[k] = 0 /\ ~Queued(k) /\ ~Taken(k)
    \/ k \in enqueued /\ runs[k] = 1 /\ ~Queued(k) /\ ~Taken(k)
    \/ k \in enqueued /\ runs[k] = 0 /\ Queued(k) /\ ~Taken(k)
    \/ k \in enqueued /\ runs[k] = 0 /\ ~Queued(k) /\ Taken(k)
Placed ==
    /\ \A i, j \in 1..Len(elements) : elements[i] = elements[j] => i = j
    /\ \A v, w \in WorkerIds : \A k \in Tasks : Doing(v, k) /\ Doing(w, k) => v = w
    /\ \A k \in Tasks : Spread(k)

\* A client has a task of its own, which is new until it has pushed it.
Own ==
    /\ \A c \in Clients : client[c] \notin {"idle", "owns"} => held[c] \notin enqueued
    /\ \A c, d \in Clients : held[c] = held[d] /\ c # d => held[c] = None
PlaceInv == Own /\ (clearer \notin {"clearPool", "done"} => Placed)

\* The barrier of WorkQueue_clear: the team and its owner gather, and with the
\* last of them they part.  It is not used before and not after.
Party == listed \cup {Owner}
Gathering ==
    /\ clearer \in {"exits", "quit", "wake", "arrive", "waiting"}
    /\ gone = 0
    /\ arrived = Cardinality(B!Waiting)
    /\ clearer = "waiting" <=> at[Owner] = "waiting"
    /\ at[Owner] \in {"outside", "waiting"}
    /\ \A w \in WorkerIds : /\ at[w] \in {"outside", "waiting"}
                            /\ worker[w] = "terminating" <=> at[w] = "waiting"
                            /\ worker[w] # "ended"
Parting ==
    /\ clearer \in {"waiting", "poll", "free", "clearBarrier"}
    /\ gone # 0 /\ arrived = 0
    /\ gone = Cardinality({t \in Party : at[t] # "released"})
    /\ at[Owner] # "waiting" /\ (clearer # "waiting" => at[Owner] = "outside")
    /\ \A w \in WorkerIds : /\ worker[w] \in {"none", "terminating", "ended"}
                            /\ at[w] # "waiting"
                            /\ at[w] # "outside" => worker[w] = "terminating"
Meeting ==
    /\ clearer \in {"open", "barrier"} =>
          /\ ~valid /\ exit = {}
          /\ \A t \in WorkerIds \cup {Owner} : at[t] = "outside"
          /\ \A w \in WorkerIds : worker[w] \notin {"leaving", "terminating", "ended"}
    /\ clearer \in {"exits", "quit", "wake", "arrive", "waiting", "poll", "free", "clearBarrier"} =>
          /\ required = Cardinality(Party)
          /\ Gathering \/ Parting
    /\ TeamHasLeft

-----------------------------------------------------------------------------
\* Clients and workers, and the sets of them that are counted, are finite.
LEMMA SetsAreFinite ==
    /\ IsFiniteSet(WorkerIds) /\ Cardinality(WorkerIds) \in Nat
    /\ IsFiniteSet(FreeOnes) /\ Cardinality(FreeOnes) \in Nat
    /\ Cardinality(FreeOnes) <= Cardinality(WorkerIds)
    /\ IsFiniteSet(InTeam) /\ Cardinality(InTeam) \in Nat
    /\ \A W \in SUBSET WorkerIds : IsFiniteSet(W) /\ Cardinality(W) \in Nat
<1>1. FreeOnes \subseteq WorkerIds /\ InTeam \subseteq WorkerIds
  BY DEF FreeOnes, InTeam
<1> QED BY <1>1, WorkQueueAssumption, FS_Subset, FS_CardinalityType

\* Which actions change where a worker is, and how many are counted as free.
LEMMA WorkersGo ==
    ASSUME [Next]_vars
    PROVE  \/ UNCHANGED <<worker, freeWorkers>>
           \/ \E w \in WorkerIds :
                 \/ \E c \in Clients : AddWorker(c) /\ worker[w] = "none" /\ WorkerGoto(w, "starting")
                 \/ WorkerStart(w) \/ TestExit(w) \/ PopWaitReturns(w) \/ BecomeBusy(w)
                 \/ RunTask(w) \/ SignalTask(w) \/ BecomeFree(w) \/ WorkerArrive(w)
                 \/ WorkerEnd(w)
<1> USE DEF teamVars, workerVars, vars
<1>1. ASSUME NEW c \in Clients, ClientNext(c), ~AddWorker(c)
      PROVE  UNCHANGED <<worker, freeWorkers>>
  BY <1>1 DEF ClientNext, Enqueue, CheckFree, Lock, AddNoWorker, ListWorker, Publish,
              Unlock, PushTask, Dispose
<1>2. ASSUME NEW c \in Clients, AddWorker(c)
      PROVE  \E w \in WorkerIds : worker[w] = "none" /\ WorkerGoto(w, "starting")
  BY <1>2 DEF AddWorker
<1>3. ASSUME NEW w \in WorkerIds, PopWaitSleeps(w) \/ WakeSpuriously(w) \/ InBarrier(w)
      PROVE  UNCHANGED <<worker, freeWorkers>>
  BY <1>3 DEF PopWaitSleeps, WakeSpuriously, InBarrier
<1>4. CASE ClearBegins \/ OwnerNext
  BY <1>4 DEF ClearBegins, OwnerNext, InitBarrier, SetExit, ExitsAreSet, SetQuit, WakeUpAll,
              OwnerArrive, InBarrier, OwnerLeave, Poll, FreeTeam, ClearBarrier, ClearQueue,
              ClearPool
<1>5. CASE UNCHANGED vars
  BY <1>5
<1> QED BY <1>1, <1>2, <1>3, <1>4, <1>5 DEF Next, WorkerNext

\* Atomic_inc and Atomic_dec keep freeWorkers the number of free workers, and
\* so within its range.
LEMMA FreeStep ==
    ASSUME TypeOK, FreeWorkersCount, [Next]_vars
    PROVE  FreeWorkersCount' /\ freeWorkers' \in 0..Cardinality(WorkerIds)
<1>0. /\ freeWorkers = Cardinality(FreeOnes)
      /\ worker \in [WorkerIds -> WorkerState]
  BY DEF FreeWorkersCount, FreeOnes, Free, TypeOK
<1>s. SUFFICES freeWorkers' = Cardinality(FreeOnes')
  <2>1. FreeOnes' \subseteq WorkerIds
    BY DEF FreeOnes
  <2>2. Cardinality(FreeOnes') \in 0..Cardinality(WorkerIds)
    BY <2>1, SetsAreFinite, FS_Subset
  <2> QED BY <2>2 DEF FreeWorkersCount, FreeOnes, Free
<1>1. ASSUME UNCHANGED <<worker, freeWorkers>> PROVE freeWorkers' = Cardinality(FreeOnes')
  BY <1>0, <1>1 DEF FreeOnes
<1>2. ASSUME NEW w \in WorkerIds, NEW place, WorkerGoto(w, place),
             worker[w] \in Free <=> place \in Free, freeWorkers' = freeWorkers
      PROVE  freeWorkers' = Cardinality(FreeOnes')
  <2>1. \A v \in WorkerIds : worker'[v] \in Free <=> worker[v] \in Free
    BY <1>0, <1>2 DEF WorkerGoto
  <2>2. FreeOnes' = FreeOnes
    BY <2>1 DEF FreeOnes
  <2> QED BY <1>0, <1>2, <2>2
<1>3. ASSUME NEW w \in WorkerIds, WorkerStart(w) \/ BecomeFree(w)
      PROVE  freeWorkers' = Cardinality(FreeOnes')
  <2>1. w \notin FreeOnes /\ freeWorkers' = freeWorkers + 1 /\ WorkerGoto(w, "looping")
    BY <1>3 DEF WorkerStart, BecomeFree, FreeOnes, Free
  <2>2. FreeOnes' = FreeOnes \cup {w}
    BY <1>0, <2>1 DEF WorkerGoto, FreeOnes, Free
  <2> QED BY <1>0, <2>1, <2>2, SetsAreFinite, FS_AddElement
<1>4. ASSUME NEW w \in WorkerIds, BecomeBusy(w)
      PROVE  freeWorkers' = Cardinality(FreeOnes')
  <2>1. w \in FreeOnes /\ freeWorkers' = freeWorkers - 1 /\ WorkerGoto(w, "running")
    BY <1>4 DEF BecomeBusy, FreeOnes, Free
  <2>2. FreeOnes' = FreeOnes \ {w}
    BY <1>0, <2>1 DEF WorkerGoto, FreeOnes, Free
  <2> QED BY <1>0, <2>1, <2>2, SetsAreFinite, FS_RemoveElement
<1>5. ASSUME NEW w \in WorkerIds, NEW c \in Clients, AddWorker(c), worker[w] = "none",
             WorkerGoto(w, "starting")
      PROVE  freeWorkers' = Cardinality(FreeOnes')
  BY <1>2, <1>5 DEF AddWorker, teamVars, Free
<1>6. ASSUME NEW w \in WorkerIds, TestExit(w) \/ PopWaitReturns(w) \/ RunTask(w) \/ SignalTask(w)
                                  \/ WorkerArrive(w) \/ WorkerEnd(w)
      PROVE  freeWorkers' = Cardinality(FreeOnes')
  <2>1. freeWorkers' = freeWorkers
    BY <1>6 DEF TestExit, PopWaitReturns, RunTask, SignalTask, WorkerArrive, WorkerEnd, teamVars
  <2>2. \E place : WorkerGoto(w, place) /\ (worker[w] \in Free <=> place \in Free)
    BY <1>6 DEF TestExit, PopWaitReturns, Popped, RunTask, SignalTask, WorkerArrive, WorkerEnd,
                WorkerGoto, Free
  <2> QED BY <1>2, <2>1, <2>2
<1> QED BY <1>1, <1>3, <1>4, <1>5, <1>6, WorkersGo

-----------------------------------------------------------------------------
\* Which actions use the queue, and which the barrier.
LEMMA QueueIsUsed ==
    ASSUME [Next]_vars
    PROVE  \/ UNCHANGED queueVars
           \/ \E c \in Clients : PushTask(c)
           \/ \E w \in WorkerIds : PopWaitReturns(w) \/ PopWaitSleeps(w) \/ WakeSpuriously(w)
           \/ SetQuit \/ WakeUpAll \/ ClearQueue
<1>1. ASSUME NEW c \in Clients, ClientNext(c), ~PushTask(c) PROVE UNCHANGED queueVars
  BY <1>1 DEF ClientNext, Enqueue, CheckFree, Lock, AddWorker, AddNoWorker, ListWorker,
              Publish, Unlock, Dispose
<1>2. ASSUME NEW w \in WorkerIds, WorkerNext(w), ~PopWaitReturns(w), ~PopWaitSleeps(w)
      PROVE  UNCHANGED queueVars
  BY <1>2 DEF WorkerNext, WorkerStart, TestExit, BecomeBusy, RunTask, SignalTask, BecomeFree,
              WorkerArrive, InBarrier, WorkerEnd
<1>3. ASSUME ClearBegins \/ OwnerNext, ~SetQuit, ~WakeUpAll, ~ClearQueue
      PROVE  UNCHANGED queueVars
  BY <1>3 DEF ClearBegins, OwnerNext, InitBarrier, SetExit, ExitsAreSet, OwnerArrive, InBarrier,
              OwnerLeave, Poll, FreeTeam, ClearBarrier, ClearPool
<1>4. CASE UNCHANGED vars
  BY <1>4 DEF vars
<1> QED BY <1>1, <1>2, <1>3, <1>4 DEF Next

LEMMA BarrierIsUsed ==
    ASSUME [Next]_vars
    PROVE  \/ UNCHANGED barrierVars
           \/ \E w \in WorkerIds : WorkerArrive(w) \/ WorkerEnd(w)
           \/ \E t \in WorkerIds \cup {Owner} : InBarrier(t)
           \/ InitBarrier \/ OwnerArrive \/ OwnerLeave \/ ClearBarrier
<1>1. ASSUME NEW c \in Clients, ClientNext(c) PROVE UNCHANGED barrierVars
  BY <1>1 DEF ClientNext, Enqueue, CheckFree, Lock, AddWorker, AddNoWorker, ListWorker,
              Publish, Unlock, PushTask, Dispose
<1>2. ASSUME NEW w \in WorkerIds, WorkerNext(w) \/ WakeSpuriously(w),
             ~WorkerArrive(w), ~InBarrier(w), ~WorkerEnd(w)
      PROVE  UNCHANGED barrierVars
  BY <1>2 DEF WorkerNext, WorkerStart, TestExit, PopWaitReturns, PopWaitSleeps, WakeSpuriously,
              BecomeBusy, RunTask, SignalTask, BecomeFree
<1>3. ASSUME ClearBegins \/ OwnerNext, ~InitBarrier, ~OwnerArrive, ~InBarrier(Owner),
             ~OwnerLeave, ~ClearBarrier
      PROVE  UNCHANGED barrierVars
  BY <1>3 DEF ClearBegins, OwnerNext, SetExit, ExitsAreSet, SetQuit, WakeUpAll, Poll, FreeTeam,
              ClearQueue, ClearPool
<1>4. CASE UNCHANGED vars
  BY <1>4 DEF vars
<1> QED BY <1>1, <1>2, <1>3, <1>4 DEF Next

\* What MTQueue_push and MTQueue_unlockedPop do to the list.
LEMMA PushedAtTheEnd ==
    ASSUME NEW c, NEW k \in Tasks, Q!Push(c, k), elements \in Seq(Tasks)
    PROVE  elements' = Append(elements, k) /\ elements' \in Seq(Tasks)
BY DEF Q!Push, Q!Added

LEMMA PoppedAtTheHead ==
    ASSUME elements \in Seq(Tasks), Q!UnlockedPop \/ UNCHANGED elements
    PROVE  /\ elements' \in Seq(Tasks)
           /\ Len(elements') < Len(elements) <=> elements # <<>> /\ elements' = Tail(elements)
           /\ elements # <<>> => Head(elements) \in Tasks
           /\ elements' = elements \/ (elements # <<>> /\ elements' = Tail(elements))
<1>1. CASE elements = <<>>
  <2>1. elements' = elements /\ Len(elements) = 0
    BY <1>1 DEF Q!UnlockedPop
  <2>2. ~(Len(elements') < Len(elements))
    BY <2>1
  <2> QED BY <1>1, <2>1, <2>2
<1>2. CASE elements # <<>>
  <2>1. Tail(elements) \in Seq(Tasks) /\ Len(Tail(elements)) = Len(elements) - 1 /\ Len(elements) \in Nat
    BY <1>2
  <2> QED BY <1>2, <2>1 DEF Q!UnlockedPop
<1> QED BY <1>1, <1>2

\* Every use of the queue keeps its variables in their types.
LEMMA QueueTypeStep ==
    ASSUME TypeOK, Hands, [Next]_vars
    PROVE  Q!TypeOK'
<1>0. /\ elements \in Seq(Tasks) /\ quit \in BOOLEAN
      /\ popper \in [WorkerIds \cup Clients -> {"outside", "asleep", "woken"}]
  BY DEF TypeOK, Q!TypeOK, Q!PopperState
<1>s. SUFFICES /\ elements' \in Seq(Tasks) /\ quit' \in BOOLEAN
               /\ popper' \in [WorkerIds \cup Clients -> {"outside", "asleep", "woken"}]
  BY DEF Q!TypeOK, Q!PopperState
<1>1. ASSUME NEW c \in Clients, PushTask(c)
      PROVE  elements' \in Seq(Tasks) /\ popper' \in [WorkerIds \cup Clients -> {"outside", "asleep", "woken"}] /\ quit' = quit
  <2>1. held[c] \in Tasks /\ Q!Push(c, held[c])
    BY <1>1 DEF PushTask, Hands, TypeOK
  <2> QED BY <1>0, <2>1, PushedAtTheEnd DEF Q!Push, Q!SignalPush, Q!Asleep
<1>2. ASSUME NEW w \in WorkerIds, PopWaitReturns(w)
      PROVE  elements' \in Seq(Tasks) /\ popper' \in [WorkerIds \cup Clients -> {"outside", "asleep", "woken"}] /\ quit' = quit
  BY <1>0, <1>2, PoppedAtTheHead DEF PopWaitReturns, Q!PopWaitNow, Q!PopWaitResume
<1>3. ASSUME NEW w \in WorkerIds, PopWaitSleeps(w) \/ WakeSpuriously(w)
      PROVE  elements' \in Seq(Tasks) /\ popper' \in [WorkerIds \cup Clients -> {"outside", "asleep", "woken"}] /\ quit' = quit
  BY <1>0, <1>3 DEF PopWaitSleeps, WakeSpuriously, Q!PopWaitSleep, Q!WakeUnsignalled
<1>4. CASE SetQuit \/ WakeUpAll
  BY <1>0, <1>4 DEF SetQuit, WakeUpAll, Q!SetQuit, Q!WakeUpAll, Q!Asleep
<1>5. CASE ClearQueue
  BY <1>0, <1>5 DEF ClearQueue
<1>6. CASE UNCHANGED queueVars
  BY <1>0, <1>6 DEF queueVars
<1> QED BY <1>0, <1>1, <1>2, <1>3, <1>4, <1>5, <1>6, QueueIsUsed

\* Every use of the barrier keeps its variables in their types.
LEMMA BarrierTypeStep ==
    ASSUME TypeOK, [Next]_vars
    PROVE  B!TypeOK'
<1> USE DEF B!TypeOK, B!BarrierState
<1>0. B!TypeOK
  BY DEF TypeOK
<1>1. ASSUME NEW t \in WorkerIds \cup {Owner}, Arrive(t) \/ B!CountGone(t) \/ B!ResetGone(t) \/ B!Leave(t)
      PROVE  B!TypeOK'
  BY <1>0, <1>1 DEF Arrive, B!ArriveAndWait, B!ArriveLast, B!CountGone, B!ResetGone, B!Leave
<1>2. CASE InitBarrier
  <2>1. Cardinality(listed) + 1 \in Nat
    BY SetsAreFinite DEF TypeOK
  <2> QED BY <1>0, <1>2, <2>1 DEF InitBarrier, B!Initialize
<1>3. CASE ClearBarrier
  BY <1>0, <1>3 DEF ClearBarrier, B!Clear
<1>4. CASE UNCHANGED barrierVars
  BY <1>0, <1>4 DEF barrierVars
<1> QED
  BY <1>1, <1>2, <1>3, <1>4, BarrierIsUsed
  DEF WorkerArrive, WorkerEnd, InBarrier, OwnerArrive, OwnerLeave

-----------------------------------------------------------------------------
\* The variables keep their types.
LEMMA TypeStep ==
    ASSUME TypeOK, Hands, FreeWorkersCount, [Next]_vars
    PROVE  TypeOK'
<1>0. Q!TypeOK' /\ B!TypeOK' /\ freeWorkers' \in 0..Cardinality(WorkerIds)
  BY QueueTypeStep, BarrierTypeStep, FreeStep
<1>n. None \notin Tasks /\ None \notin WorkerIds /\ None \notin Clients
  BY WorkQueueAssumption
<1> USE DEF TypeOK, ClientState, WorkerState, ClearState, Goto, WorkerGoto, ClearGoto,
            teamVars, clientVars, workerVars, taskVars, clearVars
<1>1. ASSUME NEW c \in Clients,
             (\E k \in Tasks : Enqueue(c, k)) \/ CheckFree(c) \/ Lock(c) \/ AddWorker(c)
                \/ AddNoWorker(c) \/ Publish(c) \/ Unlock(c)
      PROVE  TypeOK'
  <2>1. ASSUME NEW k \in Tasks, Enqueue(c, k) PROVE TypeOK'
    BY <1>0, <2>1 DEF Enqueue
  <2>2. CASE CheckFree(c) \/ Lock(c) \/ AddNoWorker(c) \/ Unlock(c)
    BY <1>0, <2>2 DEF CheckFree, Lock, AddNoWorker, Unlock
  <2>3. CASE AddWorker(c)
    BY <1>0, <2>3 DEF AddWorker
  <2>4. CASE Publish(c)
    <3>1. maxWorkersReached' \in BOOLEAN
      BY <2>4 DEF Publish, Full
    <3> QED BY <1>0, <2>4, <3>1 DEF Publish
  <2> QED BY <1>1, <2>1, <2>2, <2>3, <2>4
<1>2. ASSUME NEW c \in Clients, ListWorker(c) \/ PushTask(c) \/ Dispose(c)
      PROVE  TypeOK'
  <2>1. held[c] \in Tasks /\ (client[c] = "list" => created[c] \in WorkerIds)
    BY <1>2, <1>n DEF ListWorker, PushTask, Dispose, Hands
  <2> QED BY <1>0, <1>2, <2>1 DEF ListWorker, PushTask, Dispose
<1>3. ASSUME NEW w \in WorkerIds, WorkerStart(w) \/ TestExit(w) \/ PopWaitSleeps(w)
                \/ WakeSpuriously(w) \/ BecomeBusy(w) \/ BecomeFree(w) \/ WorkerArrive(w)
                \/ WorkerEnd(w)
      PROVE  TypeOK'
  BY <1>0, <1>3 DEF WorkerStart, TestExit, PopWaitSleeps, WakeSpuriously, BecomeBusy, BecomeFree,
                    WorkerArrive, WorkerEnd
<1>4. ASSUME NEW w \in WorkerIds, PopWaitReturns(w)
      PROVE  TypeOK'
  <2>1. Len(elements') < Len(elements) => Head(elements) \in Tasks
    BY <1>4, PoppedAtTheHead DEF PopWaitReturns, Q!PopWaitNow, Q!PopWaitResume, Q!TypeOK
  <2> QED BY <1>0, <1>4, <2>1 DEF PopWaitReturns, Popped
<1>5. ASSUME NEW w \in WorkerIds, RunTask(w) \/ SignalTask(w)
      PROVE  TypeOK'
  <2>1. job[w] \in Tasks
    BY <1>5 DEF RunTask, SignalTask, Hands, Engaged
  <2> QED BY <1>0, <1>5, <2>1 DEF RunTask, SignalTask
<1>6. ASSUME NEW t, InBarrier(t) PROVE TypeOK'
  BY <1>0, <1>6 DEF InBarrier
<1>7. CASE ClearBegins \/ (\E w \in WorkerIds : SetExit(w))
  BY <1>0, <1>7 DEF ClearBegins, SetExit
<1>8. CASE InitBarrier \/ ExitsAreSet \/ SetQuit \/ WakeUpAll \/ OwnerArrive \/ OwnerLeave
              \/ Poll \/ FreeTeam \/ ClearBarrier \/ ClearQueue \/ ClearPool
  BY <1>0, <1>8 DEF InitBarrier, ExitsAreSet, SetQuit, WakeUpAll, OwnerArrive, OwnerLeave, Poll,
                    FreeTeam, ClearBarrier, ClearQueue, ClearPool
<1>9. CASE UNCHANGED vars
  BY <1>0, <1>9 DEF vars
<1> QED
  BY <1>1, <1>2, <1>3, <1>4, <1>5, <1>6, <1>7, <1>8, <1>9
  DEF Next, ClientNext, WorkerNext, OwnerNext

\* Every thread takes up and puts down what it handles where it should.
LEMMA HandsStep ==
    ASSUME TypeOK, Hands, [Next]_vars
    PROVE  Hands'
<1>n. None \notin Tasks /\ None \notin WorkerIds /\ None \notin Clients
  BY WorkQueueAssumption
<1> USE DEF TypeOK, ClientState, WorkerState, Goto, WorkerGoto, ClearGoto, Engaged, Hands, Quiescent,
            queueVars, teamVars, clientVars, workerVars, clearVars
<1>1. ASSUME NEW c \in Clients,
             (\E k \in Tasks : Enqueue(c, k)) \/ CheckFree(c) \/ Lock(c) 
                \/ AddNoWorker(c) \/ ListWorker(c) \/ Publish(c) \/ Unlock(c) \/ Dispose(c)
      PROVE  Hands'
  BY <1>1, <1>n DEF Enqueue, CheckFree, Lock, AddNoWorker, ListWorker, Publish, Unlock, Dispose
<1>2. ASSUME NEW c \in Clients, AddWorker(c) PROVE Hands'
  BY <1>2, <1>n DEF AddWorker
<1>3. ASSUME NEW c \in Clients, PushTask(c) PROVE Hands'
  <2>1. \A w \in WorkerIds : popper'[w] # "outside" => popper[w] # "outside"
    BY <1>3 DEF PushTask, Q!Push, Q!SignalPush, Q!Asleep, Q!TypeOK
  <2> QED BY <1>3, <2>1 DEF PushTask
<1>4. ASSUME NEW w \in WorkerIds, WorkerStart(w) \/ TestExit(w) \/ BecomeBusy(w) \/ RunTask(w)
                \/ SignalTask(w) \/ BecomeFree(w) \/ WorkerArrive(w) \/ WorkerEnd(w)
      PROVE  Hands'
  BY <1>4, <1>n DEF WorkerStart, TestExit, BecomeBusy, RunTask, SignalTask, BecomeFree,
                    WorkerArrive, WorkerEnd
<1>5. ASSUME NEW w \in WorkerIds, PopWaitReturns(w) PROVE Hands'
  <2>1. Len(elements') < Len(elements) => Head(elements) \in Tasks
    BY <1>5, PoppedAtTheHead DEF PopWaitReturns, Q!PopWaitNow, Q!PopWaitResume, Q!TypeOK
  <2>2. popper'[w] = "outside" /\ \A v \in WorkerIds \ {w} : popper'[v] = popper[v]
    BY <1>5 DEF PopWaitReturns, Q!PopWaitNow, Q!PopWaitResume, Q!TypeOK
  <2> QED BY <1>5, <1>n, <2>1, <2>2 DEF PopWaitReturns, Popped
<1>6. ASSUME NEW w \in WorkerIds, PopWaitSleeps(w) \/ WakeSpuriously(w) PROVE Hands'
  BY <1>6 DEF PopWaitSleeps, WakeSpuriously, Q!PopWaitSleep, Q!WakeUnsignalled, Q!TypeOK
<1>7. CASE SetQuit \/ WakeUpAll
  <2>1. \A w \in WorkerIds : popper'[w] # "outside" => popper[w] # "outside"
    <3>1. CASE SetQuit
      BY <3>1 DEF SetQuit, Q!SetQuit, Q!Asleep, Q!TypeOK
    <3>2. CASE WakeUpAll
      BY <3>2 DEF WakeUpAll, Q!WakeUpAll, Q!Asleep, Q!TypeOK
    <3> QED BY <1>7, <3>1, <3>2
  <2>2. UNCHANGED <<client, created, held, worker, job>>
    BY <1>7 DEF SetQuit, WakeUpAll
  <2>3. clearer # "open"
    BY <1>7 DEF SetQuit, WakeUpAll
  <2> QED BY <2>1, <2>2, <2>3
<1>8. CASE (\E t \in WorkerIds \cup {Owner} : InBarrier(t)) \/ ClearBegins
              \/ (\E w \in WorkerIds : SetExit(w))
  BY <1>8 DEF InBarrier, ClearBegins, SetExit
<1>9. CASE InitBarrier \/ ExitsAreSet \/ OwnerArrive \/ OwnerLeave
              \/ Poll \/ FreeTeam \/ ClearBarrier \/ ClearQueue \/ ClearPool
  BY <1>9 DEF InitBarrier, ExitsAreSet, OwnerArrive, OwnerLeave, Poll,
              FreeTeam, ClearBarrier, ClearQueue, ClearPool
<1>10. CASE UNCHANGED vars
  BY <1>10 DEF vars
<1> QED
  BY <1>1, <1>2, <1>3, <1>4, <1>5, <1>6, <1>7, <1>8, <1>9, <1>10
  DEF Next, ClientNext, WorkerNext, OwnerNext

-----------------------------------------------------------------------------
\* Only one client at a time is between Lock and Unlock if there is a maximum,
\* and a worker that has been created is listed or in the hands of its creator.
LEMMA TeamStep ==
    ASSUME TypeOK, Hands, Team, [Next]_vars
    PROVE  Team'
<1>n. None \notin WorkerIds /\ None \notin Clients
  BY WorkQueueAssumption
<1> USE DEF TypeOK, ClientState, WorkerState, Goto, WorkerGoto, ClearGoto, Team, Locked,
            teamVars, clientVars, workerVars, clearVars
<1>1. ASSUME NEW c \in Clients,
             (\E k \in Tasks : Enqueue(c, k)) \/ AddNoWorker(c) \/ Publish(c) \/ PushTask(c)
                \/ Dispose(c)
      PROVE  Team'
  BY <1>1 DEF Enqueue, AddNoWorker, Publish, PushTask, Dispose
<1>2. ASSUME NEW c \in Clients, CheckFree(c) \/ Lock(c) \/ Unlock(c) PROVE Team'
  BY <1>2, <1>n DEF CheckFree, Lock, Unlock
<1>3. ASSUME NEW c \in Clients, AddWorker(c) PROVE Team'
  <2>1. PICK w \in WorkerIds : /\ worker[w] = "none" /\ worker' = [worker EXCEPT ![w] = "starting"]
                               /\ created' = [created EXCEPT ![c] = w]
    BY <1>3 DEF AddWorker
  <2>2. created[c] = None
    BY <1>3 DEF AddWorker, Hands
  <2>3. ASSUME NEW v \in WorkerIds, clearer \notin {"clearPool", "done"}
        PROVE  worker'[v] # "none" <=> v \in listed \/ \E d \in Clients : created'[d] = v
    <3>1. CASE v = w
      BY <2>1, <3>1
    <3>2. CASE v # w
      <4>1. ASSUME NEW d \in Clients PROVE created'[d] = v <=> created[d] = v
        BY <2>1, <2>2, <3>2, <1>n
      <4> QED BY <2>1, <2>3, <3>2, <4>1
    <3> QED BY <3>1, <3>2
  <2> QED BY <1>3, <2>3 DEF AddWorker
<1>4. ASSUME NEW c \in Clients, ListWorker(c) PROVE Team'
  <2>1. created[c] \in WorkerIds
    BY <1>4 DEF ListWorker, Hands
  <2>2. ASSUME NEW v \in WorkerIds
        PROVE  v \in listed' \/ (\E d \in Clients : created'[d] = v)
                 <=> v \in listed \/ (\E d \in Clients : created[d] = v)
    BY <1>4, <1>n, <2>1 DEF ListWorker
  <2> QED BY <1>4, <2>2 DEF ListWorker
<1>5. ASSUME NEW w \in WorkerIds, WorkerStart(w) \/ TestExit(w) \/ BecomeBusy(w) \/ RunTask(w)
                \/ SignalTask(w) \/ BecomeFree(w) \/ WorkerArrive(w) \/ WorkerEnd(w)
                \/ PopWaitReturns(w) \/ PopWaitSleeps(w) \/ WakeSpuriously(w)
      PROVE  Team'
  BY <1>5 DEF WorkerStart, TestExit, BecomeBusy, RunTask, SignalTask, BecomeFree, WorkerArrive,
              WorkerEnd, PopWaitReturns, PopWaitSleeps, WakeSpuriously, Popped
<1>6. CASE (\E t \in WorkerIds \cup {Owner} : InBarrier(t)) \/ ClearBegins
              \/ (\E w \in WorkerIds : SetExit(w)) \/ ClearPool \/ ClearQueue
  BY <1>6 DEF InBarrier, ClearBegins, SetExit, ClearPool, ClearQueue
<1>7. CASE InitBarrier \/ ExitsAreSet \/ SetQuit \/ WakeUpAll \/ OwnerArrive \/ OwnerLeave
              \/ Poll \/ FreeTeam \/ ClearBarrier
  <2>1. UNCHANGED <<worker, listed, created, client, mutex, maxWorkers>>
    BY <1>7 DEF InitBarrier, ExitsAreSet, SetQuit, WakeUpAll, OwnerArrive, OwnerLeave, Poll,
                FreeTeam, ClearBarrier
  <2>2. clearer \notin {"clearPool", "done"} /\ clearer' \notin {"clearPool", "done"}
    BY <1>7 DEF InitBarrier, ExitsAreSet, SetQuit, WakeUpAll, OwnerArrive, OwnerLeave, Poll,
                FreeTeam, ClearBarrier
  <2> QED BY <2>1, <2>2
<1>8. CASE UNCHANGED vars
  BY <1>8 DEF vars
<1> QED
  BY <1>1, <1>2, <1>3, <1>4, <1>5, <1>6, <1>7, <1>8 DEF Next, ClientNext, WorkerNext, OwnerNext

\* The flag is set from the list whenever the list has grown.
LEMMA FlagStep ==
    ASSUME TypeOK, FlagMeansFull, [Next]_vars
    PROVE  FlagMeansFull'
<1> USE DEF TypeOK, ClientState, Goto, ClearGoto, FlagMeansFull, Full, teamVars, clientVars, clearVars
<1>1. ASSUME NEW c \in Clients, AddWorker(c) \/ ListWorker(c) PROVE FlagMeansFull'
  BY <1>1 DEF AddWorker, ListWorker
<1>2. ASSUME NEW c \in Clients, Publish(c) PROVE FlagMeansFull'
  BY <1>2 DEF Publish
<1>3. ASSUME NEW c \in Clients, NEW place, client' = [client EXCEPT ![c] = place],
             client[c] \notin {"list", "publish"},
             UNCHANGED <<maxWorkers, maxWorkersReached, listed, clearer>>
      PROVE  FlagMeansFull'
  BY <1>3
<1>4. ASSUME NEW c \in Clients,
             (\E k \in Tasks : Enqueue(c, k)) \/ CheckFree(c) \/ Lock(c) \/ AddNoWorker(c)
                \/ Unlock(c) \/ PushTask(c) \/ Dispose(c)
      PROVE  FlagMeansFull'
  <2>1. /\ client[c] \notin {"list", "publish"} /\ \E place : client' = [client EXCEPT ![c] = place]
        /\ UNCHANGED <<maxWorkers, maxWorkersReached, listed, clearer>>
    BY <1>4 DEF Enqueue, CheckFree, Lock, AddNoWorker, Unlock, PushTask, Dispose
  <2> QED BY <1>3, <2>1
<1>5. ASSUME NEW w \in WorkerIds, WorkerNext(w) \/ WakeSpuriously(w)
      PROVE  UNCHANGED <<maxWorkers, maxWorkersReached, listed, clearer, client>>
  BY <1>5 DEF WorkerNext, WorkerStart, TestExit, BecomeBusy, RunTask, SignalTask, BecomeFree,
              WorkerArrive, InBarrier, WorkerEnd, PopWaitReturns, PopWaitSleeps, WakeSpuriously
<1>6. ASSUME ClearBegins \/ OwnerNext, ~ClearQueue, ~ClearPool
      PROVE  /\ UNCHANGED <<maxWorkers, maxWorkersReached, listed, client>>
             /\ clearer \notin {"clearPool", "done"} \/ clearer' = clearer
  BY <1>6 DEF ClearBegins, OwnerNext, InitBarrier, SetExit, ExitsAreSet, SetQuit, WakeUpAll,
              OwnerArrive, InBarrier, OwnerLeave, Poll, FreeTeam, ClearBarrier
<1>7. CASE ClearQueue \/ ClearPool
  BY <1>7 DEF ClearQueue, ClearPool
<1>8. CASE UNCHANGED vars
  BY <1>8 DEF vars
<1> QED BY <1>1, <1>2, <1>4, <1>5, <1>6, <1>7, <1>8 DEF Next, ClientNext

\* A client adds a worker only when it has seen under the mutex that the team
\* is not full, and then every worker there is stands in the list.
LEMMA BoundStep ==
    ASSUME TypeOK, Hands, Team, FlagMeansFull, WorkerBound, [Next]_vars
    PROVE  WorkerBound'
<1>0. (WorkerBound <=> (maxWorkers # 0 => Cardinality(InTeam) <= maxWorkers))
        /\ (WorkerBound' <=> (maxWorkers' # 0 => Cardinality(InTeam') <= maxWorkers'))
  BY DEF WorkerBound, InTeam
<1>1. maxWorkers' = maxWorkers /\ maxWorkers \in Nat
  BY DEF TypeOK, Next, ClientNext, Enqueue, CheckFree, Lock, AddWorker, AddNoWorker, ListWorker,
         Publish, Unlock, PushTask, Dispose, WorkerNext, WorkerStart, TestExit, BecomeBusy,
         RunTask, SignalTask, BecomeFree, WorkerArrive, InBarrier, WorkerEnd, PopWaitReturns,
         PopWaitSleeps, WakeSpuriously, ClearBegins, OwnerNext, InitBarrier, SetExit, ExitsAreSet,
         SetQuit, WakeUpAll, OwnerArrive, OwnerLeave, Poll, FreeTeam, ClearBarrier, ClearQueue,
         ClearPool, vars, teamVars
<1>2. ASSUME NEW c \in Clients, NEW w \in WorkerIds, AddWorker(c), worker[w] = "none",
             WorkerGoto(w, "starting"), maxWorkers # 0
      PROVE  Cardinality(InTeam') <= maxWorkers
  <2>1. clearer = "open" /\ ~maxWorkersReached /\ mutex = c /\ client[c] = "recheck"
    BY <1>2 DEF AddWorker, Hands, Quiescent, Team, Locked
  <2>2. \A d \in Clients : client[d] \notin {"list", "publish"}
    BY <1>2, <2>1 DEF Team, Locked
  <2>3. Cardinality(listed) < maxWorkers
    BY <1>1, <1>2, <2>1, <2>2, SetsAreFinite DEF FlagMeansFull, Full, TypeOK
  <2>4. \A d \in Clients : created[d] = None
    BY <2>2 DEF Hands
  <2>5. InTeam = listed
    BY <2>1, <2>4, WorkQueueAssumption DEF Team, InTeam, TypeOK
  <2>6. InTeam' = listed \cup {w} /\ w \notin listed
    BY <1>2, <2>5 DEF InTeam, WorkerGoto, TypeOK
  <2>7. Cardinality(InTeam') = Cardinality(listed) + 1
    BY <2>6, SetsAreFinite, FS_AddElement DEF TypeOK
  <2> QED BY <1>1, <2>3, <2>7, SetsAreFinite DEF TypeOK
<1>3. ASSUME NEW w \in WorkerIds, NEW place, WorkerGoto(w, place), worker[w] # "none", place # "none"
      PROVE  InTeam' = InTeam
  BY <1>3 DEF WorkerGoto, InTeam, TypeOK
<1>4. ASSUME NEW w \in WorkerIds, WorkerStart(w) \/ TestExit(w) \/ PopWaitReturns(w)
                \/ BecomeBusy(w) \/ RunTask(w) \/ SignalTask(w) \/ BecomeFree(w)
                \/ WorkerArrive(w) \/ WorkerEnd(w)
      PROVE  InTeam' = InTeam
  <2>1. \E place : WorkerGoto(w, place) /\ worker[w] # "none" /\ place # "none"
    BY <1>4 DEF WorkerStart, TestExit, PopWaitReturns, Popped, BecomeBusy, RunTask, SignalTask,
                BecomeFree, WorkerArrive, WorkerEnd
  <2> QED BY <1>3, <2>1
<1>5. UNCHANGED worker => InTeam' = InTeam
  BY DEF InTeam
<1> QED BY <1>0, <1>1, <1>2, <1>4, <1>5, WorkersGo

\* WorkQueue_init lists the workers it creates, and sets the flag from their
\* number.
LEMMA TeamStart == Init => TeamInv
<1> SUFFICES ASSUME Init PROVE TeamInv
  OBVIOUS
<1> USE DEF Init
<1>n. None \notin Tasks /\ None \notin WorkerIds /\ None \notin Clients
  BY WorkQueueAssumption
<1>1. PICK team \in Teams : /\ maxWorkers = team[2]
                            /\ maxWorkersReached = (team[1] = team[2])
                            /\ listed \in {W \in SUBSET WorkerIds : Cardinality(W) = team[1]}
  OBVIOUS
<1>2. team \in MinWorkers \X MaxWorkers /\ team # <<0, 0>> /\ (team[2] = 0 \/ team[2] >= team[1])
  BY DEF Teams
<1>3. team[1] \in Nat /\ team[2] \in Nat /\ (team[2] = 0 => team[1] # 0)
  <2>1. MinWorkers \subseteq Nat /\ MaxWorkers \subseteq Nat
    BY WorkQueueAssumption, SetsAreFinite
  <2>2. PICK a \in MinWorkers, b \in MaxWorkers : team = <<a, b>>
    BY <1>2
  <2>3. a \in Nat /\ b \in Nat /\ team[1] = a /\ team[2] = b /\ ~(a = 0 /\ b = 0)
    BY <1>2, <2>1, <2>2
  <2> QED BY <2>3
<1>4. listed \subseteq WorkerIds /\ Cardinality(listed) = team[1] /\ maxWorkers = team[2]
  BY <1>1
<1>5. \A w \in WorkerIds : worker[w] = IF w \in listed THEN "starting" ELSE "none"
  OBVIOUS
<1>6. TypeOK
  <2>1. Q!TypeOK
    <3>1. <<>> \in Seq(Tasks)
      OBVIOUS
    <3> QED BY <3>1 DEF Q!Init, Q!TypeOK, Q!PopperState
  <2>2. B!TypeOK
    BY DEF B!Allocated, B!TypeOK, B!BarrierState
  <2>3. maxWorkers \in Nat /\ maxWorkersReached \in BOOLEAN
    BY <1>1, <1>3
  <2>4. freeWorkers \in 0..Cardinality(WorkerIds)
    BY SetsAreFinite
  <2> QED BY <1>4, <2>1, <2>2, <2>3, <2>4 DEF TypeOK, ClientState, WorkerState, ClearState
<1>7. Hands
  BY <1>5, <1>n DEF Hands, Engaged, Q!Init
<1>8. Team
  BY <1>4, <1>5, <1>n DEF Team, Locked
<1>9. WorkersAreCounted
  <2>1. WorkerBound
    <3>1. InTeam = listed
      BY <1>4, <1>5 DEF InTeam
    <3> QED BY <1>2, <1>3, <1>4, <3>1 DEF WorkerBound, InTeam
  <2>2. FlagMeansFull
    <3>1. (team[1] = team[2]) <=> (team[2] # 0 /\ team[1] >= team[2])
      BY <1>2, <1>3
    <3>2. maxWorkersReached <=> Full
      BY <1>1, <1>4, <3>1 DEF Full
    <3> QED BY <3>2 DEF FlagMeansFull
  <2>3. FreeWorkersCount
    <3>1. FreeOnes = {}
      BY <1>5 DEF FreeOnes, Free
    <3> QED BY <3>1, FS_EmptySet DEF FreeWorkersCount, FreeOnes, Free
  <2> QED BY <1>6, <2>1, <2>2, <2>3 DEF WorkersAreCounted
<1> QED BY <1>6, <1>7, <1>8, <1>9 DEF TeamInv

\* Every step keeps the team counted.
LEMMA TeamKept == TeamInv /\ [Next]_vars => TeamInv'
BY TypeStep, HandsStep, TeamStep, FlagStep, BoundStep, FreeStep DEF TeamInv, WorkersAreCounted

\* While clients and workers race, the team never exceeds its maximum, the flag
\* that spares WorkQueue_enqueue the lock is right, and freeWorkers is the
\* number of the workers that are free.
THEOREM TeamIsCounted == Spec => []WorkersAreCounted
<1>1. TeamInv => WorkersAreCounted
  BY DEF TeamInv
<1> QED BY <1>1, TeamStart, TeamKept, PTL DEF Spec

-----------------------------------------------------------------------------
\* The tasks that the clients hold are their own.
LEMMA OwnStep ==
    ASSUME TeamInv, Own, [Next]_vars
    PROVE  Own'
<1>0. TypeOK /\ Hands
  BY DEF TeamInv
<1>n. None \notin Tasks
  BY WorkQueueAssumption
<1> USE DEF TypeOK, ClientState, Goto, Own, teamVars, clientVars
<1>1. ASSUME NEW c \in Clients, NEW k \in Tasks, Enqueue(c, k) PROVE Own'
  BY <1>0, <1>1, <1>n DEF Enqueue
<1>2. ASSUME NEW c \in Clients, PushTask(c) PROVE Own'
  <2>1. held[c] # None
    BY <1>0, <1>2 DEF PushTask, Hands
  <2> QED BY <1>0, <1>2, <2>1 DEF PushTask
<1>3. ASSUME NEW c \in Clients, Dispose(c) PROVE Own'
  BY <1>0, <1>3 DEF Dispose
<1>4. ASSUME NEW c \in Clients, CheckFree(c) \/ Lock(c) \/ AddWorker(c) \/ AddNoWorker(c)
                \/ ListWorker(c) \/ Publish(c) \/ Unlock(c)
      PROVE  Own'
  <2>1. /\ held' = held /\ enqueued' = enqueued /\ client[c] \notin {"idle", "owns"}
        /\ \A d \in Clients \ {c} : client'[d] = client[d]
    BY <1>0, <1>4 DEF CheckFree, Lock, AddWorker, AddNoWorker, ListWorker, Publish, Unlock
  <2> QED BY <2>1
<1>5. ASSUME NEW w \in WorkerIds, WorkerNext(w) \/ WakeSpuriously(w)
      PROVE  UNCHANGED <<client, held, enqueued>>
  BY <1>5 DEF WorkerNext, WorkerStart, TestExit, BecomeBusy, RunTask, SignalTask, BecomeFree,
              WorkerArrive, InBarrier, WorkerEnd, PopWaitReturns, PopWaitSleeps, WakeSpuriously
<1>6. ASSUME ClearBegins \/ OwnerNext PROVE UNCHANGED <<client, held, enqueued>>
  BY <1>6 DEF ClearBegins, OwnerNext, InitBarrier, SetExit, ExitsAreSet, SetQuit, WakeUpAll,
              OwnerArrive, InBarrier, OwnerLeave, Poll, FreeTeam, ClearBarrier, ClearQueue,
              ClearPool
<1>7. CASE UNCHANGED vars
  BY <1>7 DEF vars
<1> QED BY <1>1, <1>2, <1>3, <1>4, <1>5, <1>6, <1>7 DEF Next, ClientNext

\* Which actions move a task, and how WorkQueue_clear goes on.
LEMMA TaskMoves ==
    ASSUME [Next]_vars
    PROVE  /\ clearer \in {"clearPool", "done"} => clearer' \in {"clearPool", "done"}
           /\ \/ UNCHANGED <<elements, runs, enqueued, job>> /\ UNCHANGED worker
              \/ UNCHANGED <<elements, runs, enqueued, job>>
                   /\ \E w \in WorkerIds, place \in WorkerState \ {"signalling"} :
                         worker[w] # "signalling" /\ WorkerGoto(w, place)
              \/ \E c \in Clients : PushTask(c)
              \/ \E w \in WorkerIds : PopWaitReturns(w) \/ RunTask(w) \/ SignalTask(w)
              \/ clearer' = "clearPool"
<1> USE DEF queueVars, teamVars, clientVars, workerVars, taskVars, clearVars, vars, ClearGoto
<1>1. ASSUME NEW c \in Clients, ClientNext(c), ~PushTask(c), ~AddWorker(c)
      PROVE  UNCHANGED <<elements, runs, enqueued, job, worker, clearer>>
  BY <1>1 DEF ClientNext, Enqueue, CheckFree, Lock, AddNoWorker, ListWorker, Publish,
              Unlock, Dispose
<1>2. ASSUME NEW c \in Clients, AddWorker(c)
      PROVE  /\ UNCHANGED <<elements, runs, enqueued, job, clearer>>
             /\ \E w \in WorkerIds, place \in WorkerState \ {"signalling"} :
                         worker[w] # "signalling" /\ WorkerGoto(w, place)
  BY <1>2 DEF AddWorker, WorkerState
<1>3. ASSUME NEW w \in WorkerIds, WorkerStart(w) \/ TestExit(w) \/ BecomeBusy(w)
                \/ BecomeFree(w) \/ WorkerArrive(w) \/ WorkerEnd(w)
      PROVE  /\ UNCHANGED <<elements, runs, enqueued, job, clearer>>
             /\ \E place \in WorkerState \ {"signalling"} :
                         worker[w] # "signalling" /\ WorkerGoto(w, place)
  BY <1>3 DEF WorkerStart, TestExit, BecomeBusy, BecomeFree, WorkerArrive, WorkerEnd, WorkerState
<1>4. ASSUME NEW w \in WorkerIds, PopWaitSleeps(w) \/ WakeSpuriously(w) \/ InBarrier(w)
      PROVE  UNCHANGED <<elements, runs, enqueued, job, worker, clearer>>
  BY <1>4 DEF PopWaitSleeps, WakeSpuriously, InBarrier, Q!PopWaitSleep, Q!WakeUnsignalled
<1>5. ASSUME ClearBegins \/ OwnerNext, ~ClearQueue, ~ClearPool
      PROVE  /\ UNCHANGED <<elements, runs, enqueued, job, worker>>
             /\ clearer \notin {"clearPool", "done"} \/ clearer' = clearer
  BY <1>5 DEF ClearBegins, OwnerNext, InitBarrier, SetExit, ExitsAreSet, SetQuit, WakeUpAll,
              OwnerArrive, InBarrier, OwnerLeave, Poll, FreeTeam, ClearBarrier, Q!SetQuit,
              Q!WakeUpAll
<1>6. CASE ClearQueue \/ ClearPool
  BY <1>6 DEF ClearQueue, ClearPool
<1>7. ASSUME NEW c \in Clients, PushTask(c) PROVE clearer' = clearer
  BY <1>7 DEF PushTask
<1>8. ASSUME NEW w \in WorkerIds, PopWaitReturns(w) \/ RunTask(w) \/ SignalTask(w)
      PROVE  clearer' = clearer
  BY <1>8 DEF PopWaitReturns, RunTask, SignalTask
<1>9. CASE UNCHANGED vars
  BY <1>9
<1> QED BY <1>1, <1>2, <1>3, <1>4, <1>5, <1>6, <1>7, <1>8, <1>9 DEF Next, WorkerNext

\* A task stays where it is when no worker takes it up or puts it down.
LEMMA PlacedIfNothingMoves ==
    ASSUME Placed, UNCHANGED <<elements, runs, enqueued>>,
           \A w \in WorkerIds, k \in Tasks : Doing(w, k)' <=> Doing(w, k)
    PROVE  Placed'
<1>1. \A k \in Tasks : (Taken(k)' <=> Taken(k)) /\ (Queued(k)' <=> Queued(k))
  BY DEF Taken, Queued
<1> QED BY <1>1 DEF Placed, Spread

\* A task that is pushed goes from its client to the queue.
LEMMA PlacedAfterPush ==
    ASSUME TeamInv, Own, Placed, NEW c \in Clients, PushTask(c)
    PROVE  Placed'
<1>0. TypeOK /\ Hands
  BY DEF TeamInv
<1>1. PICK k \in Tasks : k = held[c] /\ k \notin enqueued
  BY <1>0 DEF PushTask, Hands, TypeOK, Own
<1>2. elements \in Seq(Tasks) /\ elements' = Append(elements, k)
  BY <1>0, <1>1, PushedAtTheEnd DEF PushTask, TypeOK, Q!TypeOK
<1>3. runs' = runs /\ enqueued' = enqueued \cup {k} /\ worker' = worker /\ job' = job
  BY <1>1 DEF PushTask, workerVars, taskVars
<1>4. runs[k] = 0 /\ ~Queued(k) /\ ~Taken(k)
  BY <1>1 DEF Placed, Spread
<1>5. /\ Len(elements) \in Nat /\ Len(elements') = Len(elements) + 1
      /\ \A i \in 1..Len(elements) : elements'[i] = elements[i]
      /\ elements'[Len(elements) + 1] = k
  BY <1>2
<1>6. \A j \in Tasks : Queued(j)' <=> Queued(j) \/ j = k
  BY <1>5 DEF Queued
<1>7. \A w \in WorkerIds, j \in Tasks : Doing(w, j)' <=> Doing(w, j)
  BY <1>3 DEF Doing
<1>8. \A j \in Tasks : Taken(j)' <=> Taken(j)
  BY <1>7 DEF Taken
<1>9. \A j \in Tasks : Spread(j)'
  BY <1>3, <1>4, <1>6, <1>8 DEF Placed, Spread
<1>10. ASSUME NEW i \in 1..Len(elements'), NEW j \in 1..Len(elements'), elements'[i] = elements'[j]
       PROVE  i = j
  <2>1. i \in 1..Len(elements) \/ i = Len(elements) + 1
    BY <1>5
  <2>2. j \in 1..Len(elements) \/ j = Len(elements) + 1
    BY <1>5
  <2>3. \A n \in 1..Len(elements) : elements[n] # k
    BY <1>4 DEF Queued
  <2> QED BY <1>5, <1>10, <2>1, <2>2, <2>3 DEF Placed
<1> QED BY <1>7, <1>9, <1>10 DEF Placed

\* A task that is popped goes from the queue to the worker.
LEMMA PlacedAfterPop ==
    ASSUME TeamInv, Placed, NEW w \in WorkerIds, PopWaitReturns(w)
    PROVE  Placed'
<1>0. TypeOK /\ Hands /\ None \notin Tasks
  BY WorkQueueAssumption DEF TeamInv
<1>1. /\ elements \in Seq(Tasks) /\ worker[w] = "popping" /\ Popped(w)
      /\ Q!UnlockedPop \/ UNCHANGED elements
      /\ runs' = runs /\ enqueued' = enqueued
  BY <1>0 DEF PopWaitReturns, Q!PopWaitNow, Q!PopWaitResume, TypeOK, Q!TypeOK, clientVars, taskVars
<1>2. \A k \in Tasks : ~Doing(w, k)
  BY <1>0, <1>1 DEF Hands, Engaged, Doing
<1>3. CASE elements # <<>> /\ elements' = Tail(elements)
  <2>1. PICK k \in Tasks : /\ k = Head(elements) /\ job' = [job EXCEPT ![w] = k]
                           /\ WorkerGoto(w, "taken")
    BY <1>1, <1>3, PoppedAtTheHead DEF Popped
  <2>2. /\ Len(elements) \in Nat /\ Len(elements') = Len(elements) - 1 /\ Len(elements) >= 1
        /\ \A i \in 1..Len(elements') : elements'[i] = elements[i + 1]
        /\ k = elements[1] /\ k \in Tasks
    BY <1>1, <1>3, <2>1
  <2>3. \A i, j \in 1..Len(elements) : elements[i] = elements[j] => i = j
    BY DEF Placed
  <2>4. Queued(k) /\ ~Queued(k)'
    <3>1. 1 \in 1..Len(elements)
      BY <2>2
    <3>2. \A i \in 1..Len(elements') : i + 1 \in 1..Len(elements) /\ i + 1 # 1
      BY <2>2
    <3> QED BY <2>2, <2>3, <3>1, <3>2 DEF Queued
  <2>5. \A j \in Tasks \ {k} : Queued(j)' <=> Queued(j)
    <3>1. ASSUME NEW j \in Tasks \ {k}, Queued(j) PROVE Queued(j)'
      <4>1. PICK i \in 1..Len(elements) : elements[i] = j
        BY <3>1 DEF Queued
      <4>2. i - 1 \in 1..Len(elements') /\ (i - 1) + 1 = i
        BY <2>2, <4>1
      <4> QED BY <2>2, <4>1, <4>2 DEF Queued
    <3>2. ASSUME NEW j \in Tasks \ {k}, Queued(j)' PROVE Queued(j)
      <4>1. PICK i \in 1..Len(elements') : elements'[i] = j
        BY <3>2 DEF Queued
      <4>2. i + 1 \in 1..Len(elements)
        BY <2>2, <4>1
      <4> QED BY <2>2, <4>1, <4>2 DEF Queued
    <3> QED BY <3>1, <3>2
  <2>6. \A v \in WorkerIds, j \in Tasks : Doing(v, j)' <=> Doing(v, j) \/ (v = w /\ j = k)
    BY <1>0, <1>2, <2>1 DEF Doing, WorkerGoto, TypeOK
  <2>7. \A j \in Tasks : Taken(j)' <=> Taken(j) \/ j = k
    BY <2>6 DEF Taken
  <2>8. ~Taken(k)
    BY <2>2, <2>4 DEF Placed, Spread
  <2>9. \A j \in Tasks : Spread(j)'
    <3>1. ASSUME NEW j \in Tasks \ {k} PROVE Spread(j)'
      BY <1>1, <2>5, <2>7 DEF Placed, Spread
    <3>2. Spread(k)'
      BY <1>1, <2>2, <2>4, <2>7 DEF Placed, Spread
    <3> QED BY <3>1, <3>2
  <2>10. \A i, j \in 1..Len(elements') : elements'[i] = elements'[j] => i = j
    <3>1. ASSUME NEW i \in 1..Len(elements'), NEW j \in 1..Len(elements'), elements'[i] = elements'[j]
          PROVE  i = j
      <4>1. i + 1 \in 1..Len(elements) /\ j + 1 \in 1..Len(elements)
        BY <2>2
      <4>2. elements[i + 1] = elements[j + 1]
        BY <2>2, <3>1
      <4>3. i + 1 = j + 1
        BY <2>3, <4>1, <4>2
      <4> QED BY <4>3
    <3> QED BY <3>1
  <2>11. \A u, v \in WorkerIds : \A j \in Tasks : Doing(u, j)' /\ Doing(v, j)' => u = v
    BY <2>6, <2>8 DEF Placed, Taken
  <2> QED BY <2>9, <2>10, <2>11 DEF Placed
<1>4. CASE elements' = elements
  <2>1. job' = job /\ WorkerGoto(w, "looping")
    <3>1. ~(Len(elements') < Len(elements))
      BY <1>1, <1>4
    <3> QED BY <1>1, <3>1 DEF Popped
  <2>2. \A v \in WorkerIds, k \in Tasks : Doing(v, k)' <=> Doing(v, k)
    BY <1>0, <1>1, <2>1 DEF Doing, WorkerGoto, TypeOK
  <2> QED BY <1>1, <1>4, <2>2, PlacedIfNothingMoves
<1> QED BY <1>1, <1>3, <1>4, PoppedAtTheHead

\* A task that has been run stays with its worker until it is signalled.
LEMMA PlacedAfterRun ==
    ASSUME TeamInv, Placed, NEW w \in WorkerIds, RunTask(w)
    PROVE  Placed'
<1>0. TypeOK /\ Hands
  BY DEF TeamInv
<1>1. PICK k \in Tasks : k = job[w]
  BY <1>0 DEF RunTask, Hands, Engaged, TypeOK
<1>2. /\ runs' = [runs EXCEPT ![k] = @ + 1] /\ WorkerGoto(w, "signalling") /\ worker[w] = "running"
      /\ elements' = elements /\ enqueued' = enqueued /\ job' = job
  BY <1>1 DEF RunTask, queueVars, clientVars
<1>3. Doing(w, k) /\ \A j \in Tasks : Doing(w, j) => j = k
  BY <1>1, <1>2 DEF Doing
<1>4. \A v \in WorkerIds, j \in Tasks : Doing(v, j)' <=> Doing(v, j) /\ v # w
  BY <1>0, <1>2 DEF Doing, WorkerGoto, TypeOK
<1>5. k \in enqueued /\ runs[k] = 0 /\ ~Queued(k)
  BY <1>3 DEF Placed, Spread, Taken
<1>6. ~Taken(k)' /\ \A j \in Tasks \ {k} : Taken(j)' <=> Taken(j)
  BY <1>3, <1>4 DEF Taken, Placed
<1>7. \A j \in Tasks : Queued(j)' <=> Queued(j)
  BY <1>2 DEF Queued
<1>8. \A j \in Tasks : runs'[j] = IF j = k THEN 1 ELSE runs[j]
  BY <1>0, <1>2, <1>5 DEF TypeOK
<1>9. \A j \in Tasks : Spread(j)'
  BY <1>2, <1>5, <1>6, <1>7, <1>8 DEF Placed, Spread
<1> QED BY <1>2, <1>4, <1>9 DEF Placed

\* A worker puts down a task that it has signalled, which has run.
LEMMA PlacedAfterSignal ==
    ASSUME TeamInv, Placed, NEW w \in WorkerIds, SignalTask(w)
    PROVE  Placed'
<1>0. TypeOK /\ None \notin Tasks
  BY WorkQueueAssumption DEF TeamInv
<1>1. /\ UNCHANGED <<elements, runs, enqueued>>
      /\ job' = [job EXCEPT ![w] = None] /\ WorkerGoto(w, "counting") /\ worker[w] = "signalling"
  BY DEF SignalTask, queueVars, clientVars
<1>2. \A v \in WorkerIds, k \in Tasks : Doing(v, k)' <=> Doing(v, k)
  BY <1>0, <1>1 DEF Doing, WorkerGoto, TypeOK
<1> QED BY <1>1, <1>2, PlacedIfNothingMoves

\* Every step keeps the tasks where they are to be.
LEMMA PlaceKept == TeamInv /\ PlaceInv /\ [Next]_vars => PlaceInv'
<1> SUFFICES ASSUME TeamInv, PlaceInv, [Next]_vars PROVE PlaceInv'
  OBVIOUS
<1>1. Own'
  BY OwnStep DEF PlaceInv
<1>2. CASE clearer' \in {"clearPool", "done"}
  BY <1>1, <1>2 DEF PlaceInv
<1>3. CASE clearer' \notin {"clearPool", "done"}
  <2>1. Placed /\ Own
    BY <1>3, TaskMoves DEF PlaceInv
  <2>2. ASSUME UNCHANGED <<elements, runs, enqueued, job>>, UNCHANGED worker PROVE Placed'
    BY <2>1, <2>2, PlacedIfNothingMoves DEF Doing
  <2>3. ASSUME UNCHANGED <<elements, runs, enqueued, job>>,
               NEW w \in WorkerIds, NEW place \in WorkerState \ {"signalling"},
               worker[w] # "signalling", WorkerGoto(w, place)
        PROVE  Placed'
    <3>1. \A v \in WorkerIds, k \in Tasks : Doing(v, k)' <=> Doing(v, k)
      BY <2>3 DEF Doing, WorkerGoto, TeamInv, TypeOK
    <3> QED BY <2>1, <2>3, <3>1, PlacedIfNothingMoves
  <2>4. Placed'
    BY <1>3, <2>1, <2>2, <2>3, TaskMoves, PlacedAfterPush, PlacedAfterPop, PlacedAfterRun,
       PlacedAfterSignal
  <2> QED BY <1>1, <2>4 DEF PlaceInv
<1> QED BY <1>2, <1>3

\* No task is anywhere at first.
LEMMA PlaceStart == Init => PlaceInv
<1> SUFFICES ASSUME Init PROVE PlaceInv
  OBVIOUS
<1>1. elements = <<>> /\ enqueued = {} /\ \A k \in Tasks : runs[k] = 0
  BY DEF Init, Q!Init
<1>2. \A w \in WorkerIds, k \in Tasks : ~Doing(w, k)
  BY WorkQueueAssumption DEF Init, Doing
<1>3. \A k \in Tasks : ~Queued(k) /\ ~Taken(k)
  BY <1>1, <1>2 DEF Queued, Taken
<1>4. Placed
  BY <1>1, <1>2, <1>3 DEF Placed, Spread
<1> QED BY <1>1, <1>4 DEF PlaceInv, Own, Init

\* One thing with a property is one thing.
LEMMA CountOfOneOrNone ==
    ASSUME NEW S, NEW P, P \subseteq S, \A x, y \in P : x = y
    PROVE  Cardinality(P) = IF P = {} THEN 0 ELSE 1
<1>1. CASE P = {}
  BY <1>1, FS_EmptySet
<1>2. CASE P # {}
  <2>1. PICK x : P = {x}
    BY <1>2
  <2> QED BY <1>2, <2>1, FS_Singleton
<1> QED BY <1>1, <1>2

\* Tasks that are placed are, counted, in one place.
LEMMA PlacedOnce ==
    ASSUME TeamInv, Placed, NEW k \in enqueued
    PROVE  runs[k] + Cardinality({i \in 1..Len(elements) : elements[i] = k})
                   + Cardinality({w \in WorkerIds : job[w] = k /\ worker[w] # "signalling"}) = 1
<1>0. k \in Tasks
  BY DEF TeamInv, TypeOK
<1> DEFINE I == {i \in 1..Len(elements) : elements[i] = k}
           W == {w \in WorkerIds : job[w] = k /\ worker[w] # "signalling"}
<1>1. Cardinality(I) = IF Queued(k) THEN 1 ELSE 0
  <2>1. I \subseteq 1..Len(elements) /\ (I = {} <=> ~Queued(k)) /\ \A i, j \in I : i = j
    BY DEF Placed, Queued
  <2> HIDE DEF I
  <2> QED BY <2>1, CountOfOneOrNone
<1>2. Cardinality(W) = IF Taken(k) THEN 1 ELSE 0
  <2>1. W \subseteq WorkerIds /\ (W = {} <=> ~Taken(k)) /\ \A v, w \in W : v = w
    BY <1>0 DEF Placed, Taken, Doing
  <2> HIDE DEF W
  <2> QED BY <2>1, CountOfOneOrNone
<1> HIDE DEF I, W
<1>3. runs[k] + Cardinality(I) + Cardinality(W) = 1
  BY <1>0, <1>1, <1>2 DEF Placed, Spread
<1> QED BY <1>3 DEF I, W

\* Whatever clients and workers do at the same time, no task that was enqueued
\* is lost, and none is run twice.
THEOREM NoTaskIsLost == Spec => []TaskInOnePlace
<1>1. TeamInv /\ PlaceInv => TaskInOnePlace
  BY PlacedOnce DEF PlaceInv, TaskInOnePlace
<1> QED BY <1>1, TeamStart, TeamKept, PlaceStart, PlaceKept, PTL DEF Spec

-----------------------------------------------------------------------------
\* While the team meets, the list of workers stands: it holds every worker.
LEMMA PartyFacts ==
    ASSUME TeamInv
    PROVE  /\ IsFiniteSet(Party) /\ Cardinality(Party) = Cardinality(listed) + 1
           /\ Party \subseteq WorkerIds \cup {Owner}
           /\ \A P \in SUBSET Party : IsFiniteSet(P) /\ Cardinality(P) \in Nat
           /\ clearer \notin {"open", "clearPool", "done"} =>
                 \A w \in WorkerIds : w \in listed <=> worker[w] # "none"
<1>1. listed \subseteq WorkerIds /\ Owner \notin listed
  BY WorkQueueAssumption DEF TeamInv, TypeOK
<1>2. IsFiniteSet(Party) /\ Cardinality(Party) = Cardinality(listed) + 1
  BY <1>1, SetsAreFinite, FS_AddElement DEF Party
<1>3. ASSUME clearer \notin {"open", "clearPool", "done"}
      PROVE  \A w \in WorkerIds : w \in listed <=> worker[w] # "none"
  <2>1. \A c \in Clients : created[c] = None
    BY <1>3 DEF TeamInv, Hands, Quiescent
  <2> QED BY <1>3, <2>1, WorkQueueAssumption DEF TeamInv, Team
<1> QED BY <1>1, <1>2, <1>3, FS_Subset, FS_CardinalityType DEF Party

\* The places of WorkQueue_clear from where the team is told to leave, and those
\* where it has left.
Used == {"exits", "quit", "wake", "arrive", "waiting", "poll", "free", "clearBarrier"}
Over == {"free", "clearBarrier", "clearQueue", "clearPool", "done"}

\* Clients act before WorkQueue_clear, and the workers they create start outside.
LEMMA MeetingOfClients ==
    ASSUME TeamInv, Meeting, NEW c \in Clients, ClientNext(c)
    PROVE  Meeting'
<1>1. clearer = "open" /\ clearer' = "open"
  BY DEF ClientNext, Enqueue, CheckFree, Lock, AddWorker, AddNoWorker, ListWorker, Publish, Unlock,
         PushTask, Dispose, clearVars, TeamInv, Hands, Quiescent
<1>2. UNCHANGED <<valid, exit, at>>
  BY DEF ClientNext, Enqueue, CheckFree, Lock, AddWorker, AddNoWorker, ListWorker, Publish, Unlock,
         PushTask, Dispose, clearVars, barrierVars
<1>3. \A w \in WorkerIds : worker'[w] \in {"leaving", "terminating", "ended"} => worker'[w] = worker[w]
  BY DEF ClientNext, Enqueue, CheckFree, Lock, AddWorker, AddNoWorker, ListWorker, Publish, Unlock,
         PushTask, Dispose, workerVars, WorkerGoto, TeamInv, TypeOK
<1> QED BY <1>1, <1>2, <1>3 DEF Meeting, TeamHasLeft

\* A worker that is not in the barrier is there while the others gather or
\* before, never later.
LEMMA MeetingOfWorkers ==
    ASSUME TeamInv, Meeting, NEW w \in WorkerIds,
           WorkerStart(w) \/ TestExit(w) \/ PopWaitReturns(w) \/ PopWaitSleeps(w)
              \/ WakeSpuriously(w) \/ BecomeBusy(w) \/ RunTask(w) \/ SignalTask(w) \/ BecomeFree(w)
    PROVE  Meeting'
<1> USE DEF TeamInv, TypeOK, Hands
<1>1. /\ UNCHANGED <<barrierVars, listed, clearer, exit>>
      /\ worker[w] \notin {"none", "terminating", "ended"}
      /\ \E place : /\ WorkerGoto(w, place) /\ place \notin {"none", "terminating", "ended"}
                    /\ place = "leaving" => w \in exit \/ worker[w] = "leaving"
  <2>1. CASE WorkerStart(w) \/ TestExit(w) \/ BecomeBusy(w) \/ RunTask(w) \/ SignalTask(w)
                \/ BecomeFree(w)
    BY <2>1 DEF WorkerStart, TestExit, BecomeBusy, RunTask, SignalTask, BecomeFree, teamVars,
                clearVars
  <2>2. CASE PopWaitReturns(w)
    <3>1. UNCHANGED <<barrierVars, listed, clearer, exit>> /\ worker[w] = "popping"
      BY <2>2 DEF PopWaitReturns, teamVars, clearVars
    <3>2. WorkerGoto(w, "taken") \/ WorkerGoto(w, "looping")
      BY <2>2 DEF PopWaitReturns, Popped
    <3> QED BY <3>1, <3>2
  <2>3. CASE PopWaitSleeps(w) \/ WakeSpuriously(w)
    <3>1. worker[w] = "popping"
      BY <2>3 DEF PopWaitSleeps, WakeSpuriously, Q!WakeUnsignalled
    <3>2. WorkerGoto(w, "popping")
      BY <2>3, <3>1 DEF PopWaitSleeps, WakeSpuriously, workerVars, WorkerGoto
    <3> QED BY <2>3, <3>1, <3>2 DEF PopWaitSleeps, WakeSpuriously, teamVars, clearVars
  <2> QED BY <2>1, <2>2, <2>3
<1>2. PICK place : /\ worker' = [worker EXCEPT ![w] = place]
                   /\ place \notin {"none", "terminating", "ended"}
                   /\ place = "leaving" => w \in exit \/ worker[w] = "leaving"
  BY <1>1 DEF WorkerGoto
<1>3. clearer \notin Over /\ ~Parting
  BY <1>1 DEF Meeting, TeamHasLeft, Parting, Over
<1>4. CASE clearer \in {"open", "barrier"}
  BY <1>1, <1>2, <1>4 DEF Meeting, barrierVars, TeamHasLeft
<1>5. CASE clearer \in Used
  <2>1. Gathering /\ required = Cardinality(Party)
    BY <1>3, <1>5 DEF Meeting, Used
  <2>2. Gathering' /\ required' = Cardinality(Party')
    BY <1>1, <1>2, <2>1 DEF Gathering, Party, barrierVars, B!Waiting
  <2> QED BY <1>1, <1>3, <1>5, <2>2 DEF Meeting, Used, Over, TeamHasLeft
<1> QED BY <1>3, <1>4, <1>5 DEF Over, Used, ClearState

\* Whoever arrives and is not the last waits, and is counted.
LEMMA GatherOneMore ==
    ASSUME TeamInv, Gathering, NEW t \in WorkerIds \cup {Owner}, B!ArriveAndWait(t),
           \A w \in WorkerIds : worker'[w] = IF w = t THEN "terminating" ELSE worker[w],
           clearer' = IF t = Owner THEN "waiting" ELSE clearer,
           t = Owner => clearer = "arrive",
           t # Owner => worker[t] = "leaving"
    PROVE  Gathering'
<1>0. B!TypeOK /\ Owner \notin WorkerIds
  BY WorkQueueAssumption DEF TeamInv, TypeOK
<1>1. /\ at[t] = "outside" /\ at' = [at EXCEPT ![t] = "waiting"] /\ arrived' = arrived + 1
      /\ gone' = gone /\ at \in [WorkerIds \cup {Owner} -> B!BarrierState]
  BY <1>0 DEF B!ArriveAndWait, B!TypeOK
<1>2. B!Waiting' = B!Waiting \cup {t} /\ t \notin B!Waiting
  BY <1>1 DEF B!Waiting
<1>3. IsFiniteSet(B!Waiting)
  <2>1. IsFiniteSet(WorkerIds \cup {Owner})
    BY SetsAreFinite, FS_AddElement
  <2> QED BY <2>1, FS_Subset DEF B!Waiting
<1>4. arrived' = Cardinality(B!Waiting')
  BY <1>1, <1>2, <1>3, FS_AddElement DEF Gathering
<1>5. /\ clearer' \in {"exits", "quit", "wake", "arrive", "waiting"}
      /\ clearer' = "waiting" <=> at'[Owner] = "waiting"
      /\ at'[Owner] \in {"outside", "waiting"}
  BY <1>0, <1>1 DEF Gathering
<1>6. ASSUME NEW w \in WorkerIds
      PROVE  /\ at'[w] \in {"outside", "waiting"}
             /\ worker'[w] = "terminating" <=> at'[w] = "waiting"
             /\ worker'[w] # "ended"
  BY <1>0, <1>1 DEF Gathering
<1> QED BY <1>1, <1>4, <1>5, <1>6 DEF Gathering

\* Whoever arrives last finds the whole party waiting, and releases it.
LEMMA GatherTheLast ==
    ASSUME TeamInv, Gathering, required = Cardinality(Party), NEW t \in Party, B!ArriveLast(t),
           UNCHANGED listed,
           \A w \in WorkerIds : worker'[w] = IF w = t THEN "terminating" ELSE worker[w],
           clearer' = IF t = Owner THEN "waiting" ELSE clearer,
           t = Owner => clearer = "arrive"
    PROVE  Parting'
<1>0. B!TypeOK /\ Owner \notin WorkerIds
  BY WorkQueueAssumption DEF TeamInv, TypeOK
<1>1. /\ at[t] = "outside" /\ arrived + 1 >= required /\ gone' = 1 /\ arrived' = 0
      /\ at' = [u \in WorkerIds \cup {Owner} |-> IF u = t THEN "leaving"
                                ELSE IF u \in B!Waiting THEN "released" ELSE at[u]]
  BY DEF B!ArriveLast
<1>2. clearer \notin {"open", "clearPool", "done"}
  BY DEF Gathering
<1>3. B!Waiting = Party \ {t}
  <2>1. ASSUME NEW u \in B!Waiting PROVE u \in Party \ {t}
    BY <1>1, <1>2, <2>1, PartyFacts DEF B!Waiting, Gathering, Party
  <2>2. IsFiniteSet(Party \ {t}) /\ Cardinality(Party \ {t}) = Cardinality(Party) - 1
    BY PartyFacts, FS_RemoveElement
  <2>3. IsFiniteSet(B!Waiting) /\ Cardinality(B!Waiting) \in Nat /\ Cardinality(Party) \in Nat
        /\ Cardinality(B!Waiting) <= Cardinality(Party \ {t})
    BY <2>1, <2>2, PartyFacts, FS_Subset, FS_CardinalityType
  <2>4. Cardinality(B!Waiting) = Cardinality(Party \ {t})
    BY <1>1, <2>2, <2>3 DEF Gathering
  <2> QED BY <2>1, <2>2, <2>4, FS_Subset
<1>4. \A u \in Party : at'[u] = IF u = t THEN "leaving" ELSE "released"
  BY <1>1, <1>3, PartyFacts
<1>5. gone' = Cardinality({u \in Party' : at'[u] # "released"}) /\ gone' # 0
  <2>1. Party' = Party
    BY DEF Party
  <2>2. {u \in Party' : at'[u] # "released"} = {t}
    BY <1>4, <2>1
  <2>3. Cardinality({t}) = 1
    BY FS_Singleton
  <2> QED BY <1>1, <2>2, <2>3
<1>6. clearer' = "waiting" /\ at'[Owner] # "waiting"
  <2>1. Owner \in Party
    BY DEF Party
  <2>2. t # Owner => at[Owner] = "waiting"
    BY <1>3, <2>1 DEF B!Waiting
  <2> QED BY <1>4, <2>1, <2>2 DEF Gathering
<1>7. ASSUME NEW w \in WorkerIds
      PROVE  /\ worker'[w] \in {"none", "terminating", "ended"}
             /\ at'[w] # "waiting"
             /\ at'[w] # "outside" => worker'[w] = "terminating"
  <2>1. CASE w \in Party
    <3>1. w # t => at[w] = "waiting" /\ worker[w] = "terminating"
      BY <1>3, <2>1 DEF B!Waiting, Gathering
    <3> QED BY <1>4, <2>1, <3>1
  <2>2. CASE w \notin Party
    <3>1. worker[w] = "none" /\ w \notin B!Waiting /\ w # t
      BY <1>2, <1>3, <2>2, PartyFacts DEF Party
    <3>2. at[w] = "outside"
      BY <3>1 DEF Gathering
    <3> QED BY <1>1, <3>1, <3>2
  <2> QED BY <2>1, <2>2
<1> QED BY <1>1, <1>5, <1>6, <1>7 DEF Parting

\* A worker comes to the barrier.
LEMMA MeetingOfArriving ==
    ASSUME TeamInv, Meeting, NEW w \in WorkerIds, WorkerArrive(w)
    PROVE  Meeting'
<1>1. /\ worker[w] = "leaving" /\ Arrive(w) /\ WorkerGoto(w, "terminating")
      /\ UNCHANGED <<listed, clearer, exit, popper>> /\ w # Owner
  BY WorkQueueAssumption DEF WorkerArrive, teamVars, clearVars, queueVars
<1>2. clearer \in Used /\ clearer \notin Over /\ Gathering /\ required = Cardinality(Party)
  BY <1>1 DEF Meeting, TeamHasLeft, Used, Over, Parting, TeamInv, TypeOK, ClearState
<1>3. \A v \in WorkerIds : worker'[v] = IF v = w THEN "terminating" ELSE worker[v]
  BY <1>1 DEF WorkerGoto, TeamInv, TypeOK
<1>4. w \in Party
  BY <1>1, <1>2, PartyFacts DEF Party, Used
<1>5. Gathering' \/ Parting'
  BY <1>1, <1>2, <1>3, <1>4, GatherOneMore, GatherTheLast DEF Arrive
<1>6. required' = Cardinality(Party')
  BY <1>1, <1>2 DEF Arrive, B!ArriveAndWait, B!ArriveLast, Party
<1> QED BY <1>1, <1>2, <1>5, <1>6 DEF Meeting, TeamHasLeft, Used, Over

\* One that has been released counts itself.
LEMMA MeetingInside ==
    ASSUME TeamInv, Meeting, NEW t \in WorkerIds \cup {Owner}, InBarrier(t)
    PROVE  Meeting'
<1>0. /\ B!TypeOK /\ B!TypeOK' /\ Owner \notin WorkerIds
      /\ UNCHANGED <<listed, clearer, exit, popper, worker, valid, required, arrived>>
  <2>1. B!TypeOK'
    BY DEF InBarrier, B!TypeOK, B!BarrierState, B!CountGone, B!ResetGone, TeamInv, TypeOK
  <2> QED
    BY <2>1, WorkQueueAssumption
    DEF InBarrier, B!CountGone, B!ResetGone, TeamInv, TypeOK, teamVars, workerVars, clearVars,
        queueVars
<1>1. at[t] \in {"released", "counting"} /\ at'[t] \in {"counting", "leaving"}
      /\ \A u \in (WorkerIds \cup {Owner}) \ {t} : at'[u] = at[u]
  BY <1>0 DEF InBarrier, B!CountGone, B!ResetGone, B!TypeOK
<1>2. TeamHasLeft'
  BY <1>0, <1>1 DEF Meeting, TeamHasLeft
<1>3. clearer \notin {"open", "barrier"}
  BY <1>1 DEF Meeting
<1>4. ASSUME clearer \in Used PROVE Parting' /\ required' = Cardinality(Party')
  <2>1. Parting /\ required = Cardinality(Party) /\ Party' = Party
    BY <1>0, <1>1, <1>4 DEF Meeting, Gathering, Used, Party
  <2> DEFINE Out == {u \in Party : at[u] # "released"}
  <2>2. gone = Cardinality(Out) /\ gone \in Nat /\ gone # 0 /\ IsFiniteSet(Out)
    BY <1>0, <2>1, PartyFacts DEF Parting, B!TypeOK
  <2>3. gone' = Cardinality(Out') /\ gone' # 0
    <3>1. CASE B!CountGone(t)
      <4>1. t \in Party /\ t \notin Out /\ gone' = gone + 1
        <5>1. t # Owner => worker[t] = "terminating"
          BY <1>1, <2>1 DEF Parting
        <5>2. t \in Party
          BY <1>4, <5>1, PartyFacts DEF Party, Used
        <5> QED BY <3>1, <5>2 DEF B!CountGone
      <4>2. Out' = Out \cup {t}
        BY <1>1, <2>1, <4>1, PartyFacts
      <4>3. Cardinality(Out \cup {t}) = Cardinality(Out) + 1
        BY <2>2, <4>1, FS_AddElement
      <4> QED BY <2>2, <4>1, <4>2, <4>3
    <3>2. CASE B!ResetGone(t)
      <4>1. gone' = gone
        BY <2>1, <3>2 DEF B!ResetGone, Parting
      <4>2. at[t] = "counting" /\ at'[t] = "leaving"
        BY <1>0, <3>2 DEF B!ResetGone, B!TypeOK
      <4>3. Out' = Out
        BY <1>1, <2>1, <4>2, PartyFacts
      <4> QED BY <2>2, <4>1, <4>3
    <3> QED BY <3>1, <3>2 DEF InBarrier
  <2>4. \A w \in WorkerIds : at'[w] # "waiting" /\ (at'[w] # "outside" => worker'[w] = "terminating")
    BY <1>0, <1>1, <2>1 DEF Parting
  <2>5. at'[Owner] # "waiting" /\ (clearer' # "waiting" => at'[Owner] = "outside")
    BY <1>0, <1>1, <2>1 DEF Parting
  <2> HIDE DEF Out
  <2>6. gone' = Cardinality({u \in Party' : at'[u] # "released"})
    BY <2>1, <2>3 DEF Out
  <2> QED BY <1>0, <2>1, <2>3, <2>4, <2>5, <2>6 DEF Parting
<1> QED BY <1>0, <1>2, <1>3, <1>4 DEF Meeting, Used

\* Whoever has been released leaves for good.
LEMMA PartOneMore ==
    ASSUME TeamInv, Parting, NEW t \in WorkerIds \cup {Owner}, B!Leave(t), UNCHANGED listed,
           \A w \in WorkerIds : worker'[w] = IF w = t THEN "ended" ELSE worker[w],
           clearer' = IF t = Owner THEN "poll" ELSE clearer
    PROVE  Parting'
<1>0. B!TypeOK /\ Owner \notin WorkerIds /\ Party' = Party
  BY WorkQueueAssumption DEF TeamInv, TypeOK, Party
<1>1. /\ at[t] = "leaving" /\ at'[t] = "outside" /\ gone' = gone /\ arrived' = arrived
      /\ \A u \in (WorkerIds \cup {Owner}) \ {t} : at'[u] = at[u]
  BY <1>0 DEF B!Leave, B!TypeOK
<1>2. {u \in Party' : at'[u] # "released"} = {u \in Party : at[u] # "released"}
  BY <1>0, <1>1, PartyFacts
<1>3. gone' = Cardinality({u \in Party' : at'[u] # "released"})
  BY <1>1, <1>2 DEF Parting
<1>4. \A w \in WorkerIds : /\ worker'[w] \in {"none", "terminating", "ended"}
                           /\ at'[w] # "waiting"
                           /\ at'[w] # "outside" => worker'[w] = "terminating"
  BY <1>1 DEF Parting
<1>5. /\ clearer' \in {"waiting", "poll", "free", "clearBarrier"}
      /\ at'[Owner] # "waiting" /\ (clearer' # "waiting" => at'[Owner] = "outside")
  BY <1>0, <1>1 DEF Parting
<1> QED BY <1>1, <1>3, <1>4, <1>5 DEF Parting

\* A worker that comes out of the barrier ends.
LEMMA MeetingOfEnding ==
    ASSUME TeamInv, Meeting, NEW w \in WorkerIds, WorkerEnd(w)
    PROVE  Meeting'
<1>1. /\ worker[w] = "terminating" /\ B!Leave(w) /\ WorkerGoto(w, "ended")
      /\ UNCHANGED <<listed, clearer, exit, popper, required>> /\ w # Owner
  BY WorkQueueAssumption DEF WorkerEnd, teamVars, clearVars, queueVars, B!Leave
<1>2. /\ \A v \in WorkerIds : worker'[v] = IF v = w THEN "ended" ELSE worker[v]
      /\ at[w] = "leaving" /\ at'[w] = "outside" /\ \A v \in WorkerIds \ {w} : at'[v] = at[v]
  BY <1>1 DEF WorkerGoto, TeamInv, TypeOK, B!Leave, B!TypeOK
<1>3. clearer \notin {"open", "barrier"}
  BY <1>2 DEF Meeting
<1>4. TeamHasLeft'
  BY <1>1, <1>2 DEF Meeting, TeamHasLeft
<1>5. ASSUME clearer \in Used PROVE Parting' /\ required' = Cardinality(Party')
  <2>1. Parting /\ required = Cardinality(Party) /\ Party' = Party
    BY <1>1, <1>2, <1>5 DEF Meeting, Gathering, Used, Party
  <2> QED BY <1>1, <1>2, <2>1, PartOneMore
<1> QED BY <1>1, <1>3, <1>4, <1>5 DEF Meeting, Used

\* WorkQueue_clear goes through its places one by one.
LEMMA MeetingOfTheOwner ==
    ASSUME TeamInv, Meeting, ClearBegins \/ OwnerNext, ~InBarrier(Owner)
    PROVE  Meeting'
<1> USE DEF ClearGoto
<1>0. TypeOK /\ B!TypeOK /\ Owner \notin WorkerIds
  BY WorkQueueAssumption DEF TeamInv, TypeOK
<1>1. CASE ClearBegins
  BY <1>1 DEF ClearBegins, Meeting, TeamHasLeft, barrierVars, workerVars
<1>2. CASE InitBarrier
  <2>1. /\ gone' = 0 /\ arrived' = 0 /\ required' = Cardinality(listed) + 1 /\ at' = at
        /\ clearer = "barrier" /\ clearer' = "exits" /\ UNCHANGED <<listed, worker>>
    BY <1>2 DEF InitBarrier, B!Initialize, teamVars, workerVars
  <2>2. /\ \A t \in WorkerIds \cup {Owner} : at'[t] = "outside"
        /\ \A w \in WorkerIds : worker'[w] \notin {"leaving", "terminating", "ended"}
    BY <2>1 DEF Meeting
  <2>3. Cardinality(B!Waiting') = 0
    BY <2>2, FS_EmptySet DEF B!Waiting
  <2>4. Gathering'
    BY <2>1, <2>2, <2>3 DEF Gathering
  <2>5. required' = Cardinality(Party')
    BY <2>1, PartyFacts DEF Party
  <2> QED BY <2>1, <2>4, <2>5 DEF Meeting, TeamHasLeft
<1>3. CASE (\E w \in WorkerIds : SetExit(w)) \/ ExitsAreSet \/ SetQuit \/ WakeUpAll
  <2>1. /\ UNCHANGED <<barrierVars, listed, worker>>
        /\ clearer \in {"exits", "quit", "wake"} /\ clearer' \in {"exits", "quit", "wake", "arrive"}
    BY <1>3 DEF SetExit, ExitsAreSet, SetQuit, WakeUpAll, teamVars, workerVars
  <2>2. Gathering /\ required = Cardinality(Party)
    BY <2>1 DEF Meeting, Parting
  <2>3. Gathering' /\ required' = Cardinality(Party')
    BY <2>1, <2>2 DEF Gathering, barrierVars, Party, B!Waiting
  <2> QED BY <2>1, <2>3 DEF Meeting, TeamHasLeft
<1>4. CASE OwnerArrive
  <2>1. /\ clearer = "arrive" /\ clearer' = "waiting" /\ Arrive(Owner)
        /\ UNCHANGED <<listed, worker>>
    BY <1>4 DEF OwnerArrive, teamVars, workerVars
  <2>2. Gathering /\ required = Cardinality(Party)
    BY <2>1 DEF Meeting, Parting
  <2>3. \A w \in WorkerIds : worker'[w] = IF w = Owner THEN "terminating" ELSE worker[w]
    BY <1>0, <2>1
  <2>4. Owner \in Party
    BY DEF Party
  <2>5. Gathering' \/ Parting'
    BY <2>1, <2>2, <2>3, <2>4, GatherOneMore, GatherTheLast DEF Arrive
  <2>6. required' = Cardinality(Party')
    BY <2>1, <2>2 DEF Arrive, B!ArriveAndWait, B!ArriveLast, Party
  <2> QED BY <2>1, <2>5, <2>6 DEF Meeting, TeamHasLeft
<1>5. CASE OwnerLeave
  <2>1. /\ clearer = "waiting" /\ clearer' = "poll" /\ B!Leave(Owner)
        /\ UNCHANGED <<listed, worker, required>> /\ at[Owner] = "leaving"
    BY <1>5 DEF OwnerLeave, teamVars, workerVars, B!Leave
  <2>2. Parting /\ required = Cardinality(Party) /\ Party' = Party
    BY <2>1 DEF Meeting, Gathering, Party
  <2>3. \A w \in WorkerIds : worker'[w] = IF w = Owner THEN "ended" ELSE worker[w]
    BY <1>0, <2>1
  <2>4. Parting'
    BY <2>1, <2>2, <2>3, PartOneMore
  <2> QED BY <2>1, <2>2, <2>4 DEF Meeting, TeamHasLeft
<1>6. CASE Poll
  <2>1. /\ clearer = "poll" /\ clearer' = "free" /\ B!IsEmpty
        /\ UNCHANGED <<barrierVars, listed, worker, popper>>
    BY <1>6 DEF Poll, teamVars, workerVars, queueVars
  <2>2. Parting /\ required = Cardinality(Party)
    BY <2>1 DEF Meeting, Gathering
  <2> DEFINE Out == {t \in Party : at[t] # "released"}
  <2>3. Out = Party
    <3>1. IsFiniteSet(Party) /\ Out \subseteq Party /\ Cardinality(Out) \in Nat /\ Cardinality(Party) \in Nat
          /\ Cardinality(Out) <= Cardinality(Party)
      BY PartyFacts, FS_Subset
    <3>2. Cardinality(Out) = gone /\ gone # 0
      BY <2>2 DEF Parting
    <3> HIDE DEF Out
    <3>3. Cardinality(Out) = Cardinality(Party)
      BY <2>1, <2>2, <3>1, <3>2 DEF B!IsEmpty
    <3> QED BY <3>1, <3>3, FS_Subset
  <2>4. \A w \in WorkerIds : at[w] # "released"
    <3>1. ASSUME NEW w \in WorkerIds, at[w] = "released" PROVE FALSE
      <4>1. worker[w] = "terminating"
        BY <2>2, <3>1 DEF Parting
      <4>2. w \in Party
        BY <2>1, <4>1, PartyFacts DEF Party
      <4> QED BY <2>3, <3>1, <4>2
    <3> QED BY <3>1
  <2>5. \A w \in WorkerIds : popper[w] = "outside"
    BY <2>2 DEF Parting, TeamInv, Hands
  <2>6. TeamHasLeft'
    BY <2>1, <2>2, <2>4, <2>5 DEF TeamHasLeft, Parting, barrierVars
  <2>7. Parting' /\ required' = Cardinality(Party')
    BY <2>1, <2>2 DEF Parting, barrierVars, Party
  <2> QED BY <2>1, <2>6, <2>7 DEF Meeting
<1>7. CASE FreeTeam
  <2>1. /\ clearer = "free" /\ clearer' = "clearBarrier"
        /\ UNCHANGED <<barrierVars, listed, worker, popper>>
    BY <1>7 DEF FreeTeam, teamVars, workerVars, queueVars
  <2>2. Parting /\ required = Cardinality(Party) /\ TeamHasLeft
    BY <2>1 DEF Meeting, Gathering
  <2>3. Parting' /\ required' = Cardinality(Party') /\ TeamHasLeft'
    BY <2>1, <2>2 DEF Parting, barrierVars, Party, TeamHasLeft
  <2> QED BY <2>1, <2>3 DEF Meeting
<1>8. CASE ClearBarrier \/ ClearQueue \/ ClearPool
  <2>1. /\ clearer \in {"clearBarrier", "clearQueue", "clearPool"}
        /\ clearer' \in {"clearQueue", "clearPool", "done"} /\ UNCHANGED <<at, worker, popper>>
    BY <1>8 DEF ClearBarrier, ClearQueue, ClearPool, B!Clear, workerVars, queueVars, barrierVars
  <2> QED BY <2>1 DEF Meeting, TeamHasLeft
<1> QED BY <1>1, <1>2, <1>3, <1>4, <1>5, <1>6, <1>7, <1>8 DEF OwnerNext

\* Every step keeps the meeting in order.
LEMMA MeetingKept == TeamInv /\ Meeting /\ [Next]_vars => Meeting'
<1> SUFFICES ASSUME TeamInv, Meeting, [Next]_vars PROVE Meeting'
  OBVIOUS
<1>1. ASSUME NEW w \in WorkerIds, WorkerNext(w) \/ WakeSpuriously(w) PROVE Meeting'
  BY <1>1, MeetingOfWorkers, MeetingOfArriving, MeetingInside, MeetingOfEnding DEF WorkerNext
<1>2. CASE UNCHANGED vars
  BY <1>2
  DEF vars, queueVars, barrierVars, teamVars, workerVars, clearVars, Meeting, Gathering, Parting,
      Party, TeamHasLeft, B!Waiting
<1> QED BY <1>1, <1>2, MeetingOfClients, MeetingOfTheOwner, MeetingInside DEF Next

\* The barrier is unused at first.
LEMMA MeetingStart == Init => Meeting
BY DEF Init, B!Allocated, Meeting, TeamHasLeft

\* WorkQueue_clear frees the workers, the barrier and the queue only when every
\* worker has left the queue and come out of the barrier.
THEOREM TeamLeavesFirst == Spec => []TeamHasLeft
<1>1. Meeting => TeamHasLeft
  BY DEF Meeting
<1> QED BY <1>1, TeamStart, TeamKept, MeetingStart, MeetingKept, PTL DEF Spec
=============================================================================
