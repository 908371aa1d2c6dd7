---------------------------- MODULE WorkQueueTask ----------------------------
(***************************************************************************)
(* The tasks of src/WorkQueue.c and the pool they come from: getTask, init, *)
(* enqueue, run and signal, wait and dispose, with the pool's three lists.  *)
(* Each MTQueue or MTList operation is one step (they lock themselves), and *)
(* so is each access to a task that another thread may come between; the    *)
(* task's `terminated' is read by the pool without the task's mutex.        *)
(*                                                                          *)
(* A failed ANY_REQUIRE ends the process: `failed' says which one, and      *)
(* nothing happens any more.                                                *)
(*                                                                          *)
(* The history variable lapses records what the threads and POSIX have done *)
(* that the tasks are not made for, so that each property can say which of  *)
(* it the property needs to be absent.                                      *)
(*                                                                          *)
(* Bound: Tasks bounds the task objects; WorkQueueTask_new waits for one.   *)
(***************************************************************************)
EXTENDS Naturals, Sequences, FiniteSets, SequencesExt

CONSTANTS
    Clients,        \* threads that get, enqueue and dispose of tasks
    Joiners,        \* threads that only wait for a client's task
    Workers,        \* the worker threads
    Tasks,          \* the WorkQueueTask objects
    Pooled,         \* those the pool is created with
    None            \* no task, no thread

ASSUME TaskAssumption ==
    /\ IsFiniteSet(Clients \cup Joiners \cup Workers) /\ IsFiniteSet(Tasks)
    /\ Clients \cap Joiners = {} /\ Workers \cap (Clients \cup Joiners) = {}
    /\ None \notin Clients \cup Joiners \cup Workers \cup Tasks
    /\ Pooled \subseteq Tasks

Threads == Clients \cup Joiners \cup Workers

VARIABLES
    allocated,      \* the tasks that exist
    valid,          \* those with valid = WORKQUEUETASK_VALID
    terminated,     \* those with terminated = true
    mutex,          \* per task: the thread that holds its mutex
    free,           \* the pool's queue `tasks'
    nonTerminated,  \* the pool's list `nonTerminatedTasks'
    temp,           \* the pool's queue `tempQueue'
    queued,         \* the work queue
    pc, task,       \* per thread: where it is, and the task it handles
    failed,         \* the ANY_REQUIRE that failed, or "none"
    lapses          \* what has happened of Lapse

taskVars == <<allocated, valid, terminated, mutex>>
poolVars == <<free, nonTerminated, temp>>
vars == <<taskVars, poolVars, queued, pc, task, failed, lapses>>

ClientState == {"idle", "drain", "unlist", "repool", "clear", "get", "init",
                "enqueue", "owns", "condwait", "woken", "dispose", "return",
                "clearReturned"}
WorkerState == {"idle", "run", "signal", "mark", "wake", "unlock"}
Failure     == {"none", "enqueue", "wait", "clear", "signal", "wake", "unlock"}

\* early:    a client went on to dispose of a task without waiting for it
\* spurious: a pthread_cond_wait returned without a signal
\* shared:   two threads waited for the same task at the same time
Lapse == {"early", "spurious", "shared"}

TypeOK ==
    /\ allocated \subseteq Tasks
    /\ valid \subseteq allocated
    /\ terminated \subseteq allocated
    /\ mutex \in [Tasks -> Threads \cup {None}]
    /\ {free, nonTerminated, temp, queued} \subseteq Seq(Tasks)
    /\ pc \in [Threads -> ClientState \cup WorkerState]
    /\ task \in [Threads -> Tasks \cup {None}]
    /\ failed \in Failure
    /\ lapses \subseteq Lapse

(* WorkQueueTaskPool_init *)
Init ==
    /\ allocated = Pooled
    /\ valid = {}
    /\ terminated = {}
    /\ mutex = [k \in Tasks |-> None]
    /\ free = SetToSeq(Pooled)
    /\ nonTerminated = <<>>
    /\ temp = <<>>
    /\ queued = <<>>
    /\ pc = [t \in Threads |-> "idle"]
    /\ task = [t \in Threads |-> None]
    /\ failed = "none"
    /\ lapses = {}

At(t, place)   == failed = "none" /\ pc[t] = place
Goto(t, place) == pc' = [pc EXCEPT ![t] = place]
Handle(t, k)   == task' = [task EXCEPT ![t] = k]

\* ANY_REQUIRE( condition ), named: the step fails or goes on as Step says.
Require(condition, name, Step) ==
    \/ ~condition /\ failed' = name /\ UNCHANGED <<taskVars, poolVars, queued, pc, task>>
    \/ condition /\ failed' = "none" /\ Step

WaitersOf(k) == {t \in Clients \cup Joiners : task[t] = k /\ pc[t] \in {"condwait", "woken"}}
Asleep(k)    == {t \in WaitersOf(k) : pc[t] = "condwait"}

-----------------------------------------------------------------------------
(***************************************************************************)
(* WorkQueueTaskPool_getTask, which begins with _refreshTasks               *)
(***************************************************************************)

(* the loop over a list that pushes the tasks of S to a queue *)
PushedOf(list, S, queue) ==
    LET upTo[n \in 0..Len(list)] ==
          IF n = 0 THEN queue
          ELSE IF list[n] \in S THEN Append(upTo[n - 1], list[n])
          ELSE upTo[n - 1]
    IN  upTo[Len(list)]

(* MTQueue_push( tempQueue ) of each that is terminated, under the read lock of *)
(* nonTerminatedTasks                                                          *)
Scan(c) ==
    /\ At(c, "idle")
    /\ temp' = PushedOf(nonTerminated, terminated, temp)
    /\ Goto(c, "drain")
    /\ UNCHANGED <<taskVars, free, nonTerminated, queued, task, failed>>

(* MTQueue_pop( tempQueue ) *)
Drain(c) ==
    /\ At(c, "drain")
    /\ IF temp = <<>>
       THEN Goto(c, "get") /\ UNCHANGED <<temp, task>>
       ELSE Goto(c, "unlist") /\ temp' = Tail(temp) /\ Handle(c, Head(temp))
    /\ UNCHANGED <<taskVars, free, nonTerminated, queued, failed>>

\* Mutant: the task stays in the list.
UnlistForgotten(c) ==
    /\ At(c, "unlist")
    /\ Goto(c, "repool")
    /\ UNCHANGED <<taskVars, free, nonTerminated, temp, queued, task, failed>>

(* MTList_remove: the first element that is the task, if any *)
Unlist(c) ==
    /\ At(c, "unlist")
    /\ nonTerminated' = RemoveFirst(nonTerminated, task[c])
    /\ Goto(c, "repool")
    /\ UNCHANGED <<taskVars, free, temp, queued, task, failed>>

(* MTQueue_push( tasks ): before the task is cleared *)
Repool(c) ==
    /\ At(c, "repool")
    /\ free' = Append(free, task[c])
    /\ Goto(c, "clear")
    /\ UNCHANGED <<taskVars, nonTerminated, temp, queued, task, failed>>

(* WorkQueueTask_clear: the mutex and the condition are destroyed, held or not *)
ClearTask(t, next) ==
    Require(task[t] \in valid, "clear",
            /\ valid' = valid \ {task[t]}
            /\ mutex' = [mutex EXCEPT ![task[t]] = None]
            /\ Handle(t, None)
            /\ Goto(t, next)
            /\ UNCHANGED <<allocated, terminated, poolVars, queued>>)

ClearRefreshed(c) == At(c, "clear") /\ ClearTask(c, "drain")

(* MTQueue_pop( tasks ), or WorkQueueTask_new, which returns zeroed memory *)
GetPooled(c) ==
    /\ At(c, "get")
    /\ free # <<>>
    /\ free' = Tail(free)
    /\ Handle(c, Head(free))
    /\ Goto(c, "init")
    /\ UNCHANGED <<taskVars, nonTerminated, temp, queued, failed>>

GetNew(c) ==
    /\ At(c, "get")
    /\ free = <<>>
    /\ \E k \in Tasks \ allocated :
          /\ allocated' = allocated \cup {k}
          /\ Handle(c, k)
    /\ Goto(c, "init")
    /\ UNCHANGED <<valid, terminated, mutex, poolVars, queued, failed>>

(* WorkQueueTask_init *)
InitTask(c) ==
    /\ At(c, "init")
    /\ valid' = valid \cup {task[c]}
    /\ terminated' = terminated \ {task[c]}
    /\ mutex' = [mutex EXCEPT ![task[c]] = None]
    /\ Goto(c, "enqueue")
    /\ UNCHANGED <<allocated, poolVars, queued, task, failed>>

(* WorkQueue_enqueue *)
Enqueue(c) ==
    /\ At(c, "enqueue")
    /\ Require(task[c] \in valid, "enqueue",
               /\ queued' = Append(queued, task[c])
               /\ Goto(c, "owns")
               /\ UNCHANGED <<taskVars, poolVars, task>>)

-----------------------------------------------------------------------------
(***************************************************************************)
(* WorkQueueTask_wait, by a client for its own task or by a joiner for one  *)
(* that a client has enqueued and not yet disposed of                       *)
(***************************************************************************)
AfterWait(t) == IF t \in Clients THEN "dispose" ELSE "idle"

Wait(t, k) ==
    /\ mutex[k] = None
    /\ lapses' = IF k \notin terminated /\ WaitersOf(k) # {}
                 THEN lapses \cup {"shared"} ELSE lapses
    /\ Require(k \in valid, "wait",
               /\ Goto(t, IF k \in terminated THEN AfterWait(t) ELSE "condwait")
               /\ Handle(t, IF k \in terminated /\ t \in Joiners THEN None ELSE k)
               /\ UNCHANGED <<taskVars, poolVars, queued>>)

WaitOwn(c) == At(c, "owns") /\ Wait(c, task[c])

WaitJoined(j, c) ==
    /\ At(j, "idle")
    /\ At(c, "owns") \/ At(c, "condwait")
    /\ Wait(j, task[c])

(* the return from Cond_wait: terminated is not tested again *)
WaitReturns(t) ==
    /\ At(t, "woken")
    /\ mutex[task[t]] = None
    /\ Goto(t, AfterWait(t))
    /\ task' = [task EXCEPT ![t] = IF t \in Joiners THEN None ELSE @]
    /\ UNCHANGED <<taskVars, poolVars, queued, failed>>

WakeSpuriously(t) ==
    /\ At(t, "condwait")
    /\ Goto(t, "woken")
    /\ lapses' = lapses \cup {"spurious"}
    /\ UNCHANGED <<taskVars, poolVars, queued, task, failed>>

(* a client that goes on to dispose of the task without waiting for it *)
SkipWait(c) ==
    /\ At(c, "owns")
    /\ Goto(c, "dispose")
    /\ lapses' = lapses \cup {"early"}
    /\ UNCHANGED <<taskVars, poolVars, queued, task, failed>>

(***************************************************************************)
(* WorkQueueTaskPool_disposeTask: terminated is read without the mutex      *)
(***************************************************************************)

DisposeLater(c) ==
    /\ At(c, "dispose")
    /\ \A j \in Joiners : task[j] # task[c]
    /\ task[c] \notin terminated
    /\ nonTerminated' = Append(nonTerminated, task[c])
    /\ Handle(c, None)
    /\ Goto(c, "idle")
    /\ UNCHANGED <<taskVars, free, temp, queued, failed>>

DisposeNow(c) ==
    /\ At(c, "dispose")
    /\ \A j \in Joiners : task[j] # task[c]
    /\ task[c] \in terminated
    /\ Goto(c, "return")
    /\ UNCHANGED <<taskVars, poolVars, queued, task, failed>>

(* MTQueue_push( tasks ): before the task is cleared *)
Return(c) ==
    /\ At(c, "return")
    /\ free' = Append(free, task[c])
    /\ Goto(c, "clearReturned")
    /\ UNCHANGED <<taskVars, nonTerminated, temp, queued, task, failed>>

ClearReturned(c) == At(c, "clearReturned") /\ ClearTask(c, "idle")

-----------------------------------------------------------------------------
(***************************************************************************)
(* WorkQueueWorker_main around a task, and WorkQueueTask_signal             *)
(***************************************************************************)

Take(w) ==
    /\ At(w, "idle")
    /\ queued # <<>>
    /\ Handle(w, Head(queued))
    /\ queued' = Tail(queued)
    /\ Goto(w, "run")
    /\ UNCHANGED <<taskVars, poolVars, failed>>

Run(w) ==
    /\ At(w, "run")
    /\ Goto(w, "signal")
    /\ UNCHANGED <<taskVars, poolVars, queued, task, failed>>

SignalLock(w) ==
    /\ At(w, "signal")
    /\ mutex[task[w]] = None
    /\ Require(task[w] \in valid, "signal",
               /\ mutex' = [mutex EXCEPT ![task[w]] = w]
               /\ Goto(w, "mark")
               /\ UNCHANGED <<allocated, valid, terminated, poolVars, queued, task>>)

SignalMark(w) ==
    /\ At(w, "mark")
    /\ terminated' = terminated \cup {task[w]}
    /\ Goto(w, "wake")
    /\ UNCHANGED <<allocated, valid, mutex, poolVars, queued, task, failed>>

\* Mutant: no Cond_signal.
SignalWakeForgotten(w) ==
    /\ At(w, "wake")
    /\ Require(task[w] \in valid, "wake",
               /\ Goto(w, "unlock")
               /\ UNCHANGED <<taskVars, poolVars, queued, task>>)

(* Cond_signal: one of the waiters, if there is one *)
SignalWake(w) ==
    /\ At(w, "wake")
    /\ Require(task[w] \in valid, "wake",
               /\ \/ Asleep(task[w]) = {} /\ Goto(w, "unlock")
                  \/ \E t \in Asleep(task[w]) :
                        pc' = [pc EXCEPT ![w] = "unlock", ![t] = "woken"]
               /\ UNCHANGED <<taskVars, poolVars, queued, task>>)

(* Mutex_unlock, of a mutex that must exist and be held by this thread *)
SignalUnlock(w) ==
    /\ At(w, "unlock")
    /\ Require(task[w] \in valid /\ mutex[task[w]] = w, "unlock",
               /\ mutex' = [mutex EXCEPT ![task[w]] = None]
               /\ Handle(w, None)
               /\ Goto(w, "idle")
               /\ UNCHANGED <<allocated, valid, terminated, poolVars, queued>>)

-----------------------------------------------------------------------------
\* the steps that are no lapse
ClientStep(c) ==
    \/ Drain(c) \/ Unlist(c) \/ Repool(c) \/ ClearRefreshed(c)
    \/ GetPooled(c) \/ GetNew(c) \/ InitTask(c) \/ Enqueue(c) \/ WaitReturns(c)
    \/ DisposeLater(c) \/ DisposeNow(c) \/ Return(c) \/ ClearReturned(c)

WorkerStep(w) ==
    \/ Take(w) \/ Run(w) \/ SignalLock(w) \/ SignalMark(w)
    \/ SignalWake(w) \/ SignalUnlock(w)

ClientNext(c) == WaitOwn(c) \/ (ClientStep(c) /\ UNCHANGED lapses)
JoinerNext(j) == WaitReturns(j) /\ UNCHANGED lapses
WorkerNext(w) == WorkerStep(w) /\ UNCHANGED lapses

Next ==
    \/ \E c \in Clients :
          ClientNext(c) \/ SkipWait(c) \/ WakeSpuriously(c) \/ (Scan(c) /\ UNCHANGED lapses)
    \/ \E j \in Joiners :
          \/ \E c \in Clients : WaitJoined(j, c)
          \/ JoinerNext(j) \/ WakeSpuriously(j)
    \/ \E w \in Workers : WorkerNext(w)

Spec == Init /\ [][Next]_vars

\* Every thread that can go on does; nobody has to ask for a new task, to join
\* another's, or to wake without a signal.
Fairness ==
    /\ \A c \in Clients : WF_vars(ClientNext(c))
    /\ \A j \in Joiners : WF_vars(JoinerNext(j))
    /\ \A w \in Workers : WF_vars(WorkerNext(w))

FairSpec == Spec /\ Fairness

-----------------------------------------------------------------------------
(* None of the ANY_REQUIREs on a task's validity, its mutex or its condition *)
(* fails while clients wait for their tasks: WorkQueue_enqueue and           *)
(* WorkQueueTask_wait find a valid task, WorkQueueTask_clear clears no task  *)
(* twice, and the worker still finds the task's mutex and condition after it *)
(* has marked the task terminated.                                           *)
NoFailedRequire == lapses \subseteq {"shared"} => failed = "none"

(* A task object is in one place: at most once in the pool's free queue, in   *)
(* the list of the non-terminated or on its way between them, or with one    *)
(* client that got it and has not disposed of it.                            *)
OccursIn(k, s) == Cardinality({i \in 1..Len(s) : s[i] = k})

TaskHasOneOwner ==
    \A k \in Tasks :
        OccursIn(k, free) + OccursIn(k, nonTerminated)
          + Cardinality({c \in Clients : /\ task[c] = k
                                         /\ pc[c] \notin {"unlist", "clear", "clearReturned"}})
        <= 1

(* The pool hands out no task that is still in the work queue or in a task    *)
(* function.                                                                  *)
FreeIsUnused ==
    \A i \in 1..Len(free) :
        /\ OccursIn(free[i], queued) = 0
        /\ \A w \in Workers : task[w] = free[i] => pc[w] \notin {"run", "signal", "mark"}

(* Whoever has waited for a task finds it terminated, unless a wait ended     *)
(* spuriously or was left out.                                                *)
WaitedIsTerminated ==
    lapses \subseteq {"shared"} =>
        \A c \in Clients : pc[c] \in {"dispose", "return"} => task[c] \in terminated

(* Whoever waits for a task, and is the only one, is woken. *)
WaitersAreWoken ==
    \A t \in Clients \cup Joiners :
        pc[t] = "condwait" ~> pc[t] # "condwait" \/ failed # "none" \/ "shared" \in lapses

(* What the pool, the clients and the workers hold of a task agrees, and no  *)
(* assertion of WorkQueueTask_* fails.                                       *)
TasksAreOwned ==
    /\ TypeOK
    /\ NoFailedRequire
    /\ TaskHasOneOwner
    /\ FreeIsUnused
    /\ WaitedIsTerminated
=============================================================================
