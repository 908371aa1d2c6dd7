------------------------------ MODULE WorkQueue ------------------------------
(***************************************************************************)
(* The work queue of src/WorkQueue.c: clients enqueue tasks, a growing team *)
(* of worker threads takes them from an MTQueue, and WorkQueue_clear ends   *)
(* the workers and meets them at a Barrier.  The queue and the barrier are  *)
(* those of modules MTQueue and Barrier.                                    *)
(*                                                                          *)
(* freeWorkers, maxWorkersReached and worker->exit are atomic variables     *)
(* that are read and written outside any lock: each access is a step.       *)
(*                                                                          *)
(* The clients keep to the contract that the ANY_REQUIREs on self->valid    *)
(* imply: WorkQueue_clear is called when no WorkQueue_enqueue is under way  *)
(* or to come.  What a client does with its task after enqueueing is        *)
(* WorkQueueTask_wait and WorkQueue_disposeTask, or, if DisposeEarly, the   *)
(* latter only.                                                             *)
(*                                                                          *)
(* Bounds: every task is enqueued at most once; WorkerIds bounds the team   *)
(* when maxWorkers = 0 leaves it unbounded.                                 *)
(***************************************************************************)
EXTENDS Naturals, Sequences, FiniteSets

CONSTANTS
    Clients,        \* the threads that enqueue
    WorkerIds,      \* the WorkQueueWorker objects
    Tasks,          \* the WorkQueueTask objects
    Owner,          \* the thread that calls WorkQueue_clear
    None,           \* no task, no worker, no owner of a mutex
    MinWorkers, MaxWorkers,     \* the numbers given to WorkQueue_init
    DisposeEarly    \* may a client dispose of a task it has not waited for?

ASSUME WorkQueueAssumption ==
    /\ IsFiniteSet(Clients) /\ IsFiniteSet(WorkerIds) /\ IsFiniteSet(Tasks)
    /\ Clients \cap WorkerIds = {}
    /\ Owner \notin WorkerIds
    /\ None \notin Clients \cup WorkerIds \cup Tasks \cup {Owner}
    /\ MinWorkers \subseteq 0..Cardinality(WorkerIds) /\ MaxWorkers \subseteq Nat
    /\ DisposeEarly \in BOOLEAN

(* The teams, <<minWorkers, maxWorkers>>.  A maximum of 0 is none.  <<0, 0>> is *)
(* left out: WorkQueue_init then marks a team without a worker and without a    *)
(* maximum as full, FlagMeansFull is false at once, and no task runs.           *)
Teams == {team \in MinWorkers \X MaxWorkers :
              team # <<0, 0>> /\ (team[2] = 0 \/ team[2] >= team[1])}

VARIABLES
    elements, quit, popper,                         \* self->tasks, see MTQueue
    valid, required, arrived, gone, owner, at,      \* the Barrier, see there
    maxWorkers, maxWorkersReached, freeWorkers,     \* as in struct WorkQueue
    listed,         \* the workers in self->workers
    mutex,          \* the client that holds self->mutex, or None
    client,         \* where each client is
    held,           \* per client: the task it handles
    created,        \* per client: the worker it has created and not yet listed
    worker,         \* where each worker is
    job,            \* per worker: the task it has popped
    exit,           \* the workers whose exit flag is set
    clearer,        \* where the owner is in WorkQueue_clear
    enqueued,       \* the tasks pushed so far
    runs,           \* per task: how often its function has been called
    terminated,     \* the tasks that are marked terminated
    nonTerminated   \* the task pool's list nonTerminatedTasks

queueVars   == <<elements, quit, popper>>
barrierVars == <<valid, required, arrived, gone, owner, at>>
teamVars    == <<maxWorkers, maxWorkersReached, freeWorkers, listed, mutex>>
clientVars  == <<client, held, created, enqueued>>
workerVars  == <<worker, job>>
taskVars    == <<runs, terminated>>
clearVars   == <<exit, clearer>>
vars == <<queueVars, barrierVars, teamVars, clientVars, workerVars, taskVars,
          clearVars, nonTerminated>>

Q == INSTANCE MTQueue WITH Threads <- WorkerIds \cup Clients, Data <- Tasks,
                           type <- "FIFO", MaxLen <- Cardinality(Tasks)
B == INSTANCE Barrier WITH Threads <- WorkerIds \cup {Owner}, NoThread <- None

ClientState == {"idle", "checkFree", "lock", "recheck", "list", "publish",
                "unlock", "push", "owns"}
WorkerState == {"none", "starting", "looping", "popping", "taken", "running",
                "signalling", "counting", "leaving", "terminating", "ended"}
ClearState  == {"open", "barrier", "exits", "quit", "wake", "arrive", "waiting",
                "poll", "free", "clearBarrier", "clearQueue", "clearPool", "done"}

TypeOK ==
    /\ Q!TypeOK /\ B!TypeOK
    /\ maxWorkers \in Nat
    /\ maxWorkersReached \in BOOLEAN
    /\ freeWorkers \in 0..Cardinality(WorkerIds)
    /\ listed \subseteq WorkerIds
    /\ mutex \in Clients \cup {None}
    /\ client \in [Clients -> ClientState]
    /\ held \in [Clients -> Tasks \cup {None}]
    /\ created \in [Clients -> WorkerIds \cup {None}]
    /\ worker \in [WorkerIds -> WorkerState]
    /\ job \in [WorkerIds -> Tasks \cup {None}]
    /\ exit \subseteq WorkerIds
    /\ clearer \in ClearState
    /\ enqueued \subseteq Tasks
    /\ runs \in [Tasks -> Nat]
    /\ terminated \subseteq Tasks
    /\ nonTerminated \subseteq Tasks

(* WorkQueue_init: the minimum team is created and listed, and its threads   *)
(* have been started.                                                        *)
Init ==
    /\ Q!Init /\ B!Allocated
    /\ \E team \in Teams :
          /\ maxWorkers = team[2]
          /\ maxWorkersReached = (team[1] = team[2])
          /\ listed \in {W \in SUBSET WorkerIds : Cardinality(W) = team[1]}
    /\ freeWorkers = 0
    /\ mutex = None
    /\ client = [c \in Clients |-> "idle"]
    /\ held = [c \in Clients |-> None]
    /\ created = [c \in Clients |-> None]
    /\ worker = [w \in WorkerIds |-> IF w \in listed THEN "starting" ELSE "none"]
    /\ job = [w \in WorkerIds |-> None]
    /\ exit = {}
    /\ clearer = "open"
    /\ enqueued = {}
    /\ runs = [k \in Tasks |-> 0]
    /\ terminated = {}
    /\ nonTerminated = {}

Goto(c, place) == client' = [client EXCEPT ![c] = place]
WorkerGoto(w, place) == worker' = [worker EXCEPT ![w] = place]

Full == maxWorkers # 0 /\ Cardinality(listed) >= maxWorkers

-----------------------------------------------------------------------------
(***************************************************************************)
(* WorkQueue_enqueue                                                        *)
(***************************************************************************)

(* the first test of maxWorkersReached *)
Enqueue(c, k) ==
    /\ clearer = "open"
    /\ client[c] = "idle"
    /\ k \notin enqueued /\ \A d \in Clients : held[d] # k
    /\ held' = [held EXCEPT ![c] = k]
    /\ Goto(c, IF maxWorkersReached THEN "push" ELSE "checkFree")
    /\ UNCHANGED <<queueVars, barrierVars, teamVars, created, enqueued,
                   workerVars, taskVars, clearVars, nonTerminated>>

(* the test of freeWorkers, and whether there is a bound to lock for *)
CheckFree(c) ==
    /\ client[c] = "checkFree"
    /\ Goto(c, IF freeWorkers # 0 THEN "push"
               ELSE IF maxWorkers # 0 THEN "lock" ELSE "recheck")
    /\ UNCHANGED <<queueVars, barrierVars, teamVars, held, created, enqueued,
                   workerVars, taskVars, clearVars, nonTerminated>>

Lock(c) ==
    /\ client[c] = "lock"
    /\ mutex = None
    /\ mutex' = c
    /\ Goto(c, "recheck")
    /\ UNCHANGED <<queueVars, barrierVars, maxWorkers, maxWorkersReached,
                   freeWorkers, listed, held, created, enqueued, workerVars,
                   taskVars, clearVars, nonTerminated>>

(* the second test of maxWorkersReached, and WorkQueue_addWorker up to        *)
(* Threads_start                                                              *)
AddWorker(c) ==
    /\ client[c] = "recheck"
    /\ ~maxWorkersReached
    /\ \E w \in WorkerIds :
          /\ worker[w] = "none"
          /\ WorkerGoto(w, "starting")
          /\ created' = [created EXCEPT ![c] = w]
    /\ Goto(c, "list")
    /\ UNCHANGED <<queueVars, barrierVars, teamVars, held, enqueued, job,
                   taskVars, clearVars, nonTerminated>>

AddNoWorker(c) ==
    /\ client[c] = "recheck"
    /\ maxWorkersReached
    /\ Goto(c, "unlock")
    /\ UNCHANGED <<queueVars, barrierVars, teamVars, held, created, enqueued,
                   workerVars, taskVars, clearVars, nonTerminated>>

(* MTList_add in WorkQueue_addWorker *)
ListWorker(c) ==
    /\ client[c] = "list"
    /\ listed' = listed \cup {created[c]}
    /\ created' = [created EXCEPT ![c] = None]
    /\ Goto(c, "publish")
    /\ UNCHANGED <<queueVars, barrierVars, maxWorkers, maxWorkersReached,
                   freeWorkers, mutex, held, enqueued, workerVars, taskVars,
                   clearVars, nonTerminated>>

(* Atomic_set( maxWorkersReached ) *)
Publish(c) ==
    /\ client[c] = "publish"
    /\ maxWorkersReached' = Full
    /\ Goto(c, "unlock")
    /\ UNCHANGED <<queueVars, barrierVars, maxWorkers, freeWorkers, listed,
                   mutex, held, created, enqueued, workerVars, taskVars,
                   clearVars, nonTerminated>>

(* Mutex_unlock, where it was locked *)
Unlock(c) ==
    /\ client[c] = "unlock"
    /\ mutex' = IF maxWorkers # 0 THEN None ELSE mutex
    /\ Goto(c, "push")
    /\ UNCHANGED <<queueVars, barrierVars, maxWorkers, maxWorkersReached,
                   freeWorkers, listed, held, created, enqueued, workerVars,
                   taskVars, clearVars, nonTerminated>>

(* MTQueue_push *)
PushTask(c) ==
    /\ client[c] = "push"
    /\ Q!Push(c, held[c])
    /\ enqueued' = enqueued \cup {held[c]}
    /\ Goto(c, "owns")
    /\ UNCHANGED <<barrierVars, teamVars, held, created, workerVars, taskVars,
                   clearVars, nonTerminated>>

(* WorkQueueTask_wait, if the client does wait, and WorkQueue_disposeTask: a  *)
(* task that has not terminated goes to the pool's list.                      *)
Dispose(c) ==
    /\ clearer = "open"
    /\ client[c] = "owns"
    /\ DisposeEarly \/ held[c] \in terminated
    /\ nonTerminated' = nonTerminated \cup ({held[c]} \ terminated)
    /\ held' = [held EXCEPT ![c] = None]
    /\ Goto(c, "idle")
    /\ UNCHANGED <<queueVars, barrierVars, teamVars, created, enqueued,
                   workerVars, taskVars, clearVars>>

-----------------------------------------------------------------------------
(***************************************************************************)
(* WorkQueueWorker_main                                                     *)
(***************************************************************************)

WorkerStart(w) ==
    /\ worker[w] = "starting"
    /\ freeWorkers' = freeWorkers + 1
    /\ WorkerGoto(w, "looping")
    /\ UNCHANGED <<queueVars, barrierVars, maxWorkers, maxWorkersReached,
                   listed, mutex, clientVars, job, taskVars, clearVars,
                   nonTerminated>>

TestExit(w) ==
    /\ worker[w] = "looping"
    /\ WorkerGoto(w, IF w \in exit THEN "leaving" ELSE "popping")
    /\ UNCHANGED <<queueVars, barrierVars, teamVars, clientVars, job, taskVars,
                   clearVars, nonTerminated>>

\* Mutant: the result of the pop that follows a wait is not taken over.
PoppedOnlyAtOnce(w) ==
    IF Len(elements') < Len(elements) /\ popper[w] = "outside"
    THEN job' = [job EXCEPT ![w] = Head(elements)] /\ WorkerGoto(w, "taken")
    ELSE UNCHANGED job /\ WorkerGoto(w, "looping")

\* What MTQueue_popWait returned: the old head if the list got shorter, or NULL
Popped(w) ==
    IF Len(elements') < Len(elements)
    THEN job' = [job EXCEPT ![w] = Head(elements)] /\ WorkerGoto(w, "taken")
    ELSE UNCHANGED job /\ WorkerGoto(w, "looping")

PopWaitReturns(w) ==
    /\ worker[w] = "popping"
    /\ Q!PopWaitNow(w) \/ Q!PopWaitResume(w)
    /\ Popped(w)
    /\ UNCHANGED <<barrierVars, teamVars, clientVars, taskVars, clearVars,
                   nonTerminated>>

PopWaitSleeps(w) ==
    /\ worker[w] = "popping"
    /\ Q!PopWaitSleep(w)
    /\ UNCHANGED <<barrierVars, teamVars, clientVars, workerVars, taskVars,
                   clearVars, nonTerminated>>

(* pthread_cond_wait ends without a signal *)
WakeSpuriously(w) ==
    /\ Q!WakeUnsignalled(w)
    /\ UNCHANGED <<barrierVars, teamVars, clientVars, workerVars, taskVars,
                   clearVars, nonTerminated>>

(* Atomic_dec( freeWorkers ) *)
BecomeBusy(w) ==
    /\ worker[w] = "taken"
    /\ freeWorkers' = freeWorkers - 1
    /\ WorkerGoto(w, "running")
    /\ UNCHANGED <<queueVars, barrierVars, maxWorkers, maxWorkersReached,
                   listed, mutex, clientVars, job, taskVars, clearVars,
                   nonTerminated>>

(* task->taskFn and task->callback *)
RunTask(w) ==
    /\ worker[w] = "running"
    /\ runs' = [runs EXCEPT ![job[w]] = @ + 1]
    /\ WorkerGoto(w, "signalling")
    /\ UNCHANGED <<queueVars, barrierVars, teamVars, clientVars, job,
                   terminated, clearVars, nonTerminated>>

(* WorkQueueTask_signal *)
SignalTask(w) ==
    /\ worker[w] = "signalling"
    /\ terminated' = terminated \cup {job[w]}
    /\ job' = [job EXCEPT ![w] = None]
    /\ WorkerGoto(w, "counting")
    /\ UNCHANGED <<queueVars, barrierVars, teamVars, clientVars, runs,
                   clearVars, nonTerminated>>

\* Mutant: the worker forgets to count itself free again.
BecomeFreeForgotten(w) ==
    /\ worker[w] = "counting"
    /\ WorkerGoto(w, "looping")
    /\ UNCHANGED <<queueVars, barrierVars, teamVars, clientVars, job, taskVars,
                   clearVars, nonTerminated>>

(* Atomic_inc( freeWorkers ) *)
BecomeFree(w) ==
    /\ worker[w] = "counting"
    /\ freeWorkers' = freeWorkers + 1
    /\ WorkerGoto(w, "looping")
    /\ UNCHANGED <<queueVars, barrierVars, maxWorkers, maxWorkersReached,
                   listed, mutex, clientVars, job, taskVars, clearVars,
                   nonTerminated>>

(* Barrier_wait, for a worker and for the owner *)
Arrive(t) == B!ArriveAndWait(t) \/ B!ArriveLast(t)

WorkerArrive(w) ==
    /\ worker[w] = "leaving"
    /\ Arrive(w)
    /\ WorkerGoto(w, "terminating")
    /\ UNCHANGED <<queueVars, teamVars, clientVars, job, taskVars, clearVars,
                   nonTerminated>>

InBarrier(t) ==
    /\ B!CountGone(t) \/ B!ResetGone(t)
    /\ UNCHANGED <<queueVars, teamVars, clientVars, workerVars, taskVars,
                   clearVars, nonTerminated>>

WorkerEnd(w) ==
    /\ worker[w] = "terminating"
    /\ B!Leave(w)
    /\ WorkerGoto(w, "ended")
    /\ UNCHANGED <<queueVars, teamVars, clientVars, job, taskVars, clearVars,
                   nonTerminated>>

-----------------------------------------------------------------------------
(***************************************************************************)
(* WorkQueue_clear                                                          *)
(***************************************************************************)

ClearGoto(place) == clearer' = place

\* The contract: nobody is in WorkQueue_enqueue, and every client that waits for
\* its tasks has done so.
Quiescent == \A c \in Clients : client[c] = "idle"

ClearBegins ==
    /\ clearer = "open"
    /\ Quiescent
    /\ ClearGoto("barrier")
    /\ UNCHANGED <<queueVars, barrierVars, teamVars, clientVars, workerVars,
                   taskVars, exit, nonTerminated>>

(* Barrier_new, Barrier_init: one place per worker, and one for the owner *)
InitBarrier ==
    /\ clearer = "barrier"
    /\ B!Initialize(Cardinality(listed) + 1)
    /\ ClearGoto("exits")
    /\ UNCHANGED <<queueVars, teamVars, clientVars, workerVars, taskVars, exit,
                   nonTerminated>>

(* the loop over the workers that sets worker->exit *)
SetExit(w) ==
    /\ clearer = "exits"
    /\ w \in listed \ exit
    /\ exit' = exit \cup {w}
    /\ UNCHANGED <<queueVars, barrierVars, teamVars, clientVars, workerVars,
                   taskVars, clearer, nonTerminated>>

ExitsAreSet ==
    /\ clearer = "exits"
    /\ listed \subseteq exit
    /\ ClearGoto("quit")
    /\ UNCHANGED <<queueVars, barrierVars, teamVars, clientVars, workerVars,
                   taskVars, exit, nonTerminated>>

(* MTQueue_setQuit *)
SetQuit ==
    /\ clearer = "quit"
    /\ Q!SetQuit(TRUE)
    /\ ClearGoto("wake")
    /\ UNCHANGED <<barrierVars, teamVars, clientVars, workerVars, taskVars,
                   exit, nonTerminated>>

(* MTQueue_wakeUpAll *)
WakeUpAll ==
    /\ clearer = "wake"
    /\ Q!WakeUpAll
    /\ ClearGoto("arrive")
    /\ UNCHANGED <<barrierVars, teamVars, clientVars, workerVars, taskVars,
                   exit, nonTerminated>>

(* Barrier_wait by the owner: in, and out again *)
OwnerArrive ==
    /\ clearer = "arrive"
    /\ Arrive(Owner)
    /\ ClearGoto("waiting")
    /\ UNCHANGED <<queueVars, teamVars, clientVars, workerVars, taskVars, exit,
                   nonTerminated>>

OwnerLeave ==
    /\ clearer = "waiting"
    /\ B!Leave(Owner)
    /\ ClearGoto("poll")
    /\ UNCHANGED <<queueVars, teamVars, clientVars, workerVars, taskVars, exit,
                   nonTerminated>>

\* Mutant: the owner does not wait for the barrier to be empty.
PollNothing ==
    /\ clearer = "poll"
    /\ ClearGoto("free")
    /\ UNCHANGED <<queueVars, barrierVars, teamVars, clientVars, workerVars,
                   taskVars, exit, nonTerminated>>

(* the loop that ends when Barrier_isEmpty *)
Poll ==
    /\ clearer = "poll"
    /\ B!IsEmpty
    /\ ClearGoto("free")
    /\ UNCHANGED <<queueVars, barrierVars, teamVars, clientVars, workerVars,
                   taskVars, exit, nonTerminated>>

(* under self->mutex, every worker is cleared and deleted *)
FreeTeam ==
    /\ clearer = "free"
    /\ mutex = None
    /\ ClearGoto("clearBarrier")
    /\ UNCHANGED <<queueVars, barrierVars, teamVars, clientVars, workerVars,
                   taskVars, exit, nonTerminated>>

(* Barrier_clear *)
ClearBarrier ==
    /\ clearer = "clearBarrier"
    /\ B!Clear
    /\ ClearGoto("clearQueue")
    /\ UNCHANGED <<queueVars, teamVars, clientVars, workerVars, taskVars, exit,
                   nonTerminated>>

(* MTList_clear of the workers, MTQueue_clear: what is still queued is dropped *)
ClearQueue ==
    /\ clearer = "clearQueue"
    /\ elements' = <<>>
    /\ listed' = {}
    /\ ClearGoto("clearPool")
    /\ UNCHANGED <<quit, popper, barrierVars, maxWorkers, maxWorkersReached,
                   freeWorkers, mutex, clientVars, workerVars, taskVars, exit,
                   nonTerminated>>

(* WorkQueueTaskPool_clear: WorkQueueTask_wait for each task in the list *)
ClearPool ==
    /\ clearer = "clearPool"
    /\ nonTerminated \subseteq terminated
    /\ nonTerminated' = {}
    /\ ClearGoto("done")
    /\ UNCHANGED <<queueVars, barrierVars, teamVars, clientVars, workerVars,
                   taskVars, exit>>

-----------------------------------------------------------------------------
ClientNext(c) ==
    \/ \E k \in Tasks : Enqueue(c, k)
    \/ CheckFree(c) \/ Lock(c) \/ AddWorker(c) \/ AddNoWorker(c)
    \/ ListWorker(c) \/ Publish(c) \/ Unlock(c) \/ PushTask(c) \/ Dispose(c)

WorkerNext(w) ==
    \/ WorkerStart(w) \/ TestExit(w) \/ PopWaitReturns(w) \/ PopWaitSleeps(w)
    \/ BecomeBusy(w) \/ RunTask(w) \/ SignalTask(w) \/ BecomeFree(w)
    \/ WorkerArrive(w) \/ InBarrier(w) \/ WorkerEnd(w)

OwnerNext ==
    \/ InitBarrier \/ (\E w \in WorkerIds : SetExit(w)) \/ ExitsAreSet
    \/ SetQuit \/ WakeUpAll \/ OwnerArrive \/ InBarrier(Owner) \/ OwnerLeave
    \/ Poll \/ FreeTeam \/ ClearBarrier \/ ClearQueue \/ ClearPool

Next ==
    \/ \E c \in Clients : ClientNext(c)
    \/ \E w \in WorkerIds : WorkerNext(w) \/ WakeSpuriously(w)
    \/ ClearBegins
    \/ OwnerNext

Spec == Init /\ [][Next]_vars

\* A thread that can go on does, task functions return, a mutex that stays free
\* is given to who waits for it.  Nobody has to enqueue, nobody has to begin to
\* clear, and no wait has to end spuriously.
Fairness ==
    /\ \A c \in Clients :
          WF_vars(ClientNext(c) /\ client[c] # "idle")
    /\ \A w \in WorkerIds : WF_vars(WorkerNext(w))
    /\ WF_vars(OwnerNext)

FairSpec == Spec /\ Fairness

-----------------------------------------------------------------------------
(* WorkQueue_init's maxWorkers is kept although maxWorkersReached and          *)
(* freeWorkers are tested before the lock is taken: no interleaving of         *)
(* clients creates a worker too many.                                          *)
WorkerBound ==
    maxWorkers # 0 => Cardinality({w \in WorkerIds : worker[w] # "none"}) <= maxWorkers

(* The comment in WorkQueue_enqueue: the flag that avoids locking says that     *)
(* the maximum worker count has been reached.  Between the changes of the team  *)
(* it says neither more nor less: no client is sent past a team that may grow.  *)
FlagMeansFull ==
    (\A c \in Clients : client[c] \notin {"list", "publish"}) /\ clearer \notin {"clearPool", "done"}
        => (maxWorkersReached <=> Full)

(* freeWorkers, counted by every worker for itself and read by enqueue without *)
(* a lock, does not drift over any number of tasks: it is the number of the    *)
(* workers that have started and are not between popping a task and finishing  *)
(* it.                                                                         *)
FreeWorkersCount ==
    freeWorkers = Cardinality({w \in WorkerIds :
        worker[w] \in {"looping", "popping", "taken", "leaving", "terminating", "ended"}})

(* Every enqueued task is in exactly one place until the queue is cleared: in  *)
(* the queue, with one worker, or run once.                                    *)
TaskInOnePlace ==
    clearer \notin {"clearPool", "done"} =>
        \A k \in enqueued :
            runs[k] + Cardinality({i \in 1..Len(elements) : elements[i] = k})
                    + Cardinality({w \in WorkerIds : job[w] = k /\ worker[w] # "signalling"}) = 1

(* When WorkQueue_clear frees the workers, the barrier and the queue, no worker *)
(* thread is anywhere it could still touch the queue or wait in the barrier.    *)
TeamHasLeft ==
    clearer \in {"free", "clearBarrier", "clearQueue", "clearPool", "done"} =>
        \A w \in WorkerIds :
            /\ worker[w] \in {"none", "terminating", "ended"}
            /\ popper[w] = "outside"
            /\ at[w] \notin {"waiting", "released"}

(* Enqueued work is done: a task in the queue is eventually run, unless the    *)
(* queue is being cleared.                                                     *)
TasksRun == \A k \in Tasks : k \in enqueued ~> runs[k] = 1 \/ clearer # "open"

(* WorkQueue_clear returns. *)
ClearReturns == clearer = "barrier" ~> clearer = "done"

(* The bookkeeping of WorkQueue_enqueue and of the workers is true while     *)
(* they race: how many there are, that the team is full, who is free.        *)
WorkersAreCounted ==
    /\ TypeOK
    /\ WorkerBound
    /\ FlagMeansFull
    /\ FreeWorkersCount

(* Every task that was enqueued is run, and WorkQueue_clear comes to its     *)
(* end.                                                                      *)
EveryCallEnds ==
    /\ TasksRun
    /\ ClearReturns
=============================================================================
