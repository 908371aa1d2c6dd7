--------------------------------- MODULE PQueue ---------------------------------
(***************************************************************************)
(* The persistent-storage queue of src/PQueue.c: a ring of slots, one mutex *)
(* for those who push, one for those who pop and one for each slot, and the *)
(* number of elements as an atomic counter between the two sides.           *)
(*                                                                          *)
(* Cond_wait is called with the mutex for popping held and with the mutex   *)
(* of the condition variable itself, and no function signals the condition. *)
(* All elements have the size that PQueue_setupElement has seen.            *)
(*                                                                          *)
(* One thread initialises the queue, tries again when that fails, and       *)
(* clears it while nobody uses it.                                          *)
(*                                                                          *)
(* Bounds: MaxPushes elements are pushed.                                   *)
(***************************************************************************)
EXTENDS Integers, Sequences, FiniteSets, SequencesExt

(***************************************************************************)
(* The life of a PQueue (src/PQueue.c): its field valid counts the          *)
(* resources the queue has acquired, PQueue_init and PQueue_setupElement go  *)
(* on from the stage that an earlier, failed call has reached, and          *)
(* PQueue_clear releases the stages in the opposite order.                  *)
(*                                                                          *)
(* A queue is a record: the stage it has reached, the stages whose          *)
(* resources it holds, those it has lost without releasing them, the result *)
(* of the last call, and whether an assertion has stopped the program.      *)
(* fails is the set of stages that cannot be reached in a call, for want of *)
(* memory or because a library call fails.                                  *)
(***************************************************************************)

(* enum PQueueValidFlags, in the order in which the code acquires.             *)
Stages == <<"clean", "lockAlloc", "mutexNew", "mutexInit", "pushCondNew", "pushCondInit",
            "memLockAlloc", "memLockNew", "memLockInit",
            "dynamicLoaderNew", "dynamicLoaderInit", "getSerializeFunc",
            "memChannelWriteNew", "memChannelWriteInit", "memChannelReadNew",
            "memChannelReadInit", "serializeWriteNew", "serializeReadNew", "miscInit",
            "sizeInit", "elementMemoryAlloc", "memChannelWriteOpen", "memChannelReadOpen",
            "serializeWriteInit", "serializeReadInit">>

(* The stages that may fail; Mutex_new, Cond_new, DynamicLoader_new and        *)
(* Serialize_new assert that they have got their memory.                       *)
Fallible == {"lockAlloc", "memLockAlloc", "dynamicLoaderInit", "getSerializeFunc",
             "memChannelWriteNew", "memChannelReadNew", "sizeInit", "elementMemoryAlloc",
             "memChannelWriteOpen", "memChannelReadOpen", "serializeWriteInit",
             "serializeReadInit"}

StageNumber(s) == CHOOSE i \in DOMAIN Stages : Stages[i] = s
Between(first, last) == {Stages[i] : i \in StageNumber(first)..StageNumber(last)}
StageNames == {Stages[i] : i \in DOMAIN Stages}

QueueType == [valid : StageNames \cup {"valid", "invalid"}, held : SUBSET StageNames,
              leaked : SUBSET StageNames, aborted : BOOLEAN,
              status : {"ok", "failed", "alreadySetup"}]

(* PQueue_new *)
NewQueue == [valid |-> "invalid", held |-> {}, leaked |-> {}, status |-> "ok", aborted |-> FALSE]

(* Any_memset of the whole queue: it forgets what it holds. *)
Forget(q) == [q EXCEPT !.leaked = @ \cup q.held, !.held = {}]

Abort(q) == [q EXCEPT !.aborted = TRUE]

-----------------------------------------------------------------------------
(* One of the functions PQueue_init...: from a stage of its own it goes through *)
(* the cases of its switch to the last one or to one that fails.               *)
Acquire(q, first, last, fails) ==
    LET goal == StageNumber(last)
        todo == (StageNumber(q.valid) + 1)..goal
        bad  == {i \in todo : Stages[i] \in fails}
        end  == IF bad = {} THEN goal ELSE (CHOOSE i \in bad : \A j \in bad : i <= j) - 1
        got  == {Stages[i] : i \in (StageNumber(q.valid) + 1)..end}
    IN IF q.status # "ok" \/ q.valid = last \/ q.valid \notin Between(first, last) THEN q
       ELSE [q EXCEPT !.valid = Stages[end], !.held = @ \cup got,
                      !.leaked = @ \cup (got \cap q.held),
                      !.status = IF bad = {} THEN "ok" ELSE "failed"]

InitMutex(q, f)         == Acquire(q, "clean", "pushCondInit", f)
InitMemLock(q, f)       == Acquire(q, "pushCondInit", "memLockInit", f)
InitDynamicLoader(q, f) == Acquire(q, "memLockInit", "getSerializeFunc", f)
InitIOChannel(q, f) ==
    Acquire(Acquire(q, "getSerializeFunc", "memChannelReadInit", f),
            "elementMemoryAlloc", "memChannelReadOpen", f)
InitSerialize(q, f) ==
    Acquire(Acquire(q, "memChannelReadInit", "serializeReadNew", f),
            "memChannelReadOpen", "serializeReadInit", f)
InitMisc(q, f)          == Acquire(q, "serializeReadNew", "miscInit", f)
InitSize(q, f)          == Acquire(q, "miscInit", "sizeInit", f)
InitElementMemory(q, f) == Acquire(q, "sizeInit", "elementMemoryAlloc", f)

(* PQueue_init: until the condition variable is initialised it starts over.    *)
InitRestarts(q) == q.valid \in Between("clean", "pushCondNew")
PQueueInit(p, f) ==
    LET q == [p EXCEPT !.valid = IF @ = "invalid" THEN "clean" ELSE @, !.status = "ok"]
        start == IF InitRestarts(q) THEN [Forget(q) EXCEPT !.valid = "clean"] ELSE q
    IN IF q.valid = "valid" THEN [q EXCEPT !.status = "alreadySetup"]
       ELSE IF q.valid \notin Between("clean", "serializeReadNew") THEN Abort(q)
       ELSE InitMisc(InitSerialize(InitIOChannel(
                InitDynamicLoader(InitMemLock(InitMutex(start, f), f), f), f), f), f)

(* PQueue_setupElement; one case of its switch has the label serializeWriteNew, *)
(* where initialising the first serializer has reached serializeWriteInit.     *)
SetupStages == Between("miscInit", "memChannelReadOpen") \cup {"serializeWriteNew"}
PQueueSetupElement(p, f) ==
    LET q == [p EXCEPT !.status = "ok"]
        r == InitSerialize(InitIOChannel(InitElementMemory(InitSize(q, f), f), f), f)
    IN IF q.valid = "valid" THEN [q EXCEPT !.status = "alreadySetup"]
       ELSE IF q.valid \notin SetupStages THEN Abort(q)
       ELSE IF r.valid = "serializeReadInit" THEN [r EXCEPT !.valid = "valid"] ELSE r

-----------------------------------------------------------------------------
(* One of the functions PQueue_clear...: from a stage of its own back to the    *)
(* stage before its first.                                                     *)
Release(q, last, first) ==
    IF q.valid = first \/ q.valid \notin Between(first, last) THEN q
    ELSE LET freed == {Stages[i] : i \in (StageNumber(first) + 1)..StageNumber(q.valid)}
         IN [q EXCEPT !.valid = first, !.held = @ \ freed]

ClearSerialize(q) == Release(Release(q, "serializeReadInit", "memChannelReadOpen"),
                             "serializeReadNew", "memChannelReadInit")
ClearIOChannel(q) == Release(Release(q, "memChannelReadOpen", "elementMemoryAlloc"),
                             "memChannelReadInit", "getSerializeFunc")
ClearElementMemory(q) == Release(q, "elementMemoryAlloc", "sizeInit")
ClearSize(q)          == Release(q, "sizeInit", "miscInit")
ClearMisc(q)          == Release(q, "miscInit", "serializeReadNew")
ClearDynamicLoader(q) == Release(q, "getSerializeFunc", "memLockInit")
ClearMemLockPartly(q) == Release(q, "memLockInit", "memLockAlloc")
ClearMemLock(q)       == Release(q, "memLockInit", "pushCondInit")
ClearMutex(q)         == Release(q, "pushCondInit", "clean")

(* PQueue_clear: the cases fall through from the stage that was reached.       *)
PQueueClear(p) ==
    LET q == [p EXCEPT !.valid = IF @ = "valid" THEN "serializeReadInit" ELSE @, !.status = "ok"]
        r == ClearMutex(ClearMemLock(ClearDynamicLoader(ClearIOChannel(ClearSerialize(
                 ClearMisc(ClearSize(ClearElementMemory(ClearIOChannel(ClearSerialize(q))))))))))
    IN IF q.valid \in {"clean", "invalid"} THEN Abort(q)
       ELSE [Forget(r) EXCEPT !.valid = "invalid"]

(* What a queue at stage valid holds: each stage up to it, once.               *)
HeldUpTo(valid) ==
    IF valid = "invalid" THEN {}
    ELSE IF valid = "valid" THEN StageNames \ {"clean"}
    ELSE Between("clean", valid) \ {"clean"}

--------------------------------------------------------------------------------
CONSTANTS
    Producers, Consumers,   \* the threads
    MaxLength,
    Microsecs,      \* the times to wait; 0 is for ever
    MaxPushes,
    Null

ASSUME PQueueAssumption ==
    /\ {MaxLength, MaxPushes} \subseteq Nat \ {0}
    /\ Microsecs \subseteq Nat
    /\ Producers \cap Consumers = {}
    /\ Null \notin Nat \cup Producers \cup Consumers

Data == 1..MaxPushes
Slots == 0..MaxLength - 1
Threads == Producers \cup Consumers

VARIABLES
    life,           \* the stage of the queue
    numElements, head, tail,
    memory,         \* the data in the slots
    owner,          \* who holds each mutex: "push", "pop" and the slots
    thread,         \* what each thread is doing
    pushes,         \* the elements that were pushed
    popped          \* the elements that were delivered

vars == <<life, numElements, head, tail, memory, owner, thread, pushes, popped>>
ringVars == <<numElements, head, tail, memory>>

Places == {"idle", "check", "wait", "slot", "copy", "count", "move"}
ThreadType == [at : Places, data : Data \cup {Null}, wait : Microsecs \cup {Null},
               todo : 0..MaxLength]
OwnerType == [push : Producers \cup {Null}, pop : Consumers \cup {Null},
              slot : [Slots -> Threads \cup {Null}]]
AtRest == [at |-> "idle", data |-> Null, wait |-> Null, todo |-> 0]

TypeOK ==
    /\ life \in QueueType
    /\ numElements \in 0..MaxLength
    /\ head \in Slots /\ tail \in Slots
    /\ memory \in [Slots -> Data \cup {Null}]
    /\ owner \in OwnerType
    /\ thread \in [Threads -> ThreadType]
    /\ pushes \in 0..MaxPushes
    /\ popped \in Seq(Data)

Init ==
    /\ life = NewQueue
    /\ numElements = 0 /\ head = 0 /\ tail = 0
    /\ memory = [s \in Slots |-> Null]
    /\ owner = [push |-> Null, pop |-> Null, slot |-> [s \in Slots |-> Null]]
    /\ thread = [t \in Threads |-> AtRest]
    /\ pushes = 0 /\ popped = <<>>

IsIdle(t) == thread[t].at = "idle"
Quiet == \A t \in Threads : IsIdle(t)
At(t, where) == thread' = [thread EXCEPT ![t].at = where]
MayBeUsed == life.valid = "valid" /\ ~life.aborted

-----------------------------------------------------------------------------
(* PQueue_init and PQueue_setupElement *)
PQueue_init(fails) ==
    /\ ~life.aborted /\ life.valid # "valid" /\ Quiet
    /\ life.valid \notin Between("miscInit", "serializeReadInit")
    /\ life' = PQueueInit(life, fails)
    /\ IF life'.valid = "miscInit"
       THEN numElements' = 0 /\ head' = 0 /\ tail' = 0 /\ UNCHANGED memory
       ELSE UNCHANGED ringVars
    /\ UNCHANGED <<owner, thread, pushes, popped>>

PQueue_setupElement(fails) ==
    /\ ~life.aborted /\ Quiet
    /\ life.valid \in Between("miscInit", "serializeReadInit")
    /\ life' = PQueueSetupElement(life, fails)
    /\ memory' = IF life'.valid = "valid" THEN [s \in Slots |-> Null] ELSE memory
    /\ UNCHANGED <<numElements, head, tail, owner, thread, pushes, popped>>

PQueue_clear ==
    /\ ~life.aborted /\ life.valid # "invalid" /\ Quiet
    /\ life' = PQueueClear(life)
    /\ numElements' = 0 /\ head' = 0 /\ tail' = 0
    /\ popped' = <<>>
    /\ UNCHANGED <<memory, owner, thread, pushes>>

-----------------------------------------------------------------------------
(* PQueue_push *)

PushLock(t) ==
    /\ MayBeUsed /\ IsIdle(t) /\ pushes < MaxPushes
    /\ owner.push = Null
    /\ owner' = [owner EXCEPT !.push = t]
    /\ At(t, "check")
    /\ UNCHANGED <<life, ringVars, pushes, popped>>

Return(t, unlocked) == owner' = unlocked /\ thread' = [thread EXCEPT ![t] = AtRest]
PushUnlocked == [owner EXCEPT !.push = Null]
PopUnlocked  == [owner EXCEPT !.pop = Null]

HasRoomForOneTooMany == numElements <= MaxLength
HasRoom == numElements < MaxLength
PushCheck(t) ==
    /\ t \in Producers /\ thread[t].at = "check"
    /\ IF HasRoom THEN At(t, "slot") /\ UNCHANGED owner ELSE Return(t, PushUnlocked)
    /\ UNCHANGED <<life, ringVars, pushes, popped>>

(* PQueue_lockSlot and PQueue_unlockSlot, on either side *)
UnlockForgotten(slot) == owner
UnlockSlot(slot) == [owner EXCEPT !.slot[slot] = Null]
LockSlot(t, slot) ==
    /\ thread[t].at = "slot"
    /\ owner.slot[slot] = Null
    /\ owner' = [owner EXCEPT !.slot[slot] = t]
    /\ At(t, "copy")
    /\ UNCHANGED <<life, ringVars, pushes, popped>>

(* PQueue_storeData; the seek fails when the channel has an error.             *)
StoreData(t) ==
    /\ t \in Producers /\ thread[t].at = "copy"
    /\ memory' = [memory EXCEPT ![tail] = pushes + 1]
    /\ owner' = UnlockSlot(tail)
    /\ At(t, "count")
    /\ UNCHANGED <<life, numElements, head, tail, pushes, popped>>
StoreDataFails(t) ==
    /\ t \in Producers /\ thread[t].at = "copy"
    /\ owner' = [owner EXCEPT !.slot[tail] = Null, !.push = Null]
    /\ thread' = [thread EXCEPT ![t] = AtRest]
    /\ UNCHANGED <<life, ringVars, pushes, popped>>

(* Atomic_inc *)
CountPush(t) ==
    /\ t \in Producers /\ thread[t].at = "count"
    /\ numElements' = numElements + 1
    /\ pushes' = pushes + 1
    /\ At(t, "move")
    /\ UNCHANGED <<life, head, tail, memory, owner, popped>>

MoveTail(t) ==
    /\ t \in Producers /\ thread[t].at = "move"
    /\ tail' = (tail + 1) % MaxLength
    /\ Return(t, PushUnlocked)
    /\ UNCHANGED <<life, numElements, head, memory, pushes, popped>>

-----------------------------------------------------------------------------
(* PQueue_pop, PQueue_popWait, PQueue_purge and PQueue_purgeWait: todo counts   *)
(* the elements that remain to be taken.                                       *)

PopLock(t) == \E wait \in Microsecs \cup {Null} :
    /\ MayBeUsed /\ IsIdle(t)
    /\ owner.pop = Null
    /\ owner' = [owner EXCEPT !.pop = t]
    /\ thread' = [thread EXCEPT ![t].at = IF wait = Null THEN "check" ELSE "wait",
                                ![t].wait = wait]
    /\ UNCHANGED <<life, ringVars, pushes, popped>>

(* Cond_wait ends by a timeout, or spuriously. *)
WakesUp(t) ==
    /\ thread[t].at = "wait"
    /\ At(t, "check")
    /\ UNCHANGED <<life, ringVars, owner, pushes, popped>>
TimeOut(t) == thread[t].wait # 0 /\ WakesUp(t)

PopCheck(t) ==
    /\ t \in Consumers /\ thread[t].at = "check"
    /\ IF numElements = 0 THEN Return(t, PopUnlocked)
       ELSE /\ \E n \in {1, numElements} :
                  thread' = [thread EXCEPT ![t].at = "slot", ![t].todo = n]
            /\ UNCHANGED owner
    /\ UNCHANGED <<life, ringVars, pushes, popped>>

(* PQueue_retrieveData *)
RetrieveData(t) ==
    /\ t \in Consumers /\ thread[t].at = "copy"
    /\ thread' = [thread EXCEPT ![t].at = "count", ![t].data = memory[head]]
    /\ owner' = UnlockSlot(head)
    /\ UNCHANGED <<life, ringVars, pushes, popped>>
RetrieveDataFails(t) ==
    /\ t \in Consumers /\ thread[t].at = "copy"
    /\ owner' = [owner EXCEPT !.slot[head] = Null, !.pop = Null]
    /\ thread' = [thread EXCEPT ![t] = AtRest]
    /\ UNCHANGED <<life, ringVars, pushes, popped>>

(* Atomic_dec *)
CountPop(t) ==
    /\ t \in Consumers /\ thread[t].at = "count"
    /\ numElements' = numElements - 1
    /\ popped' = Append(popped, thread[t].data)
    /\ At(t, "move")
    /\ UNCHANGED <<life, head, tail, memory, owner, pushes>>

FollowingUnwrapped(slot) == IF slot = MaxLength - 1 THEN slot ELSE slot + 1
Following(slot) == (slot + 1) % MaxLength
MoveHead(t) ==
    /\ t \in Consumers /\ thread[t].at = "move"
    /\ head' = Following(head)
    /\ IF thread[t].todo = 1 THEN Return(t, PopUnlocked)
       ELSE /\ thread' = [thread EXCEPT ![t].at = "slot", ![t].todo = @ - 1]
            /\ UNCHANGED owner
    /\ UNCHANGED <<life, numElements, tail, memory, pushes, popped>>

Producer(t) == PushCheck(t) \/ LockSlot(t, tail) \/ StoreData(t) \/ StoreDataFails(t)
               \/ CountPush(t) \/ MoveTail(t)
Consumer(t) == PopCheck(t) \/ LockSlot(t, head) \/ RetrieveData(t) \/ RetrieveDataFails(t)
               \/ CountPop(t) \/ MoveHead(t)

Next ==
    \/ \E fails \in {{}} \cup {{s} : s \in Fallible} :
           PQueue_init(fails) \/ PQueue_setupElement(fails)
    \/ PQueue_clear
    \/ \E t \in Producers : PushLock(t) \/ Producer(t)
    \/ \E t \in Consumers : PopLock(t) \/ Consumer(t) \/ WakesUp(t)

Spec == Init /\ [][Next]_vars

(* A thread inside a call goes on, and a timed wait ends; a wait for ever may  *)
(* end spuriously but need not.                                                *)
Fairness ==
    /\ \A t \in Producers : WF_vars(Producer(t))
    /\ \A t \in Consumers : WF_vars(Consumer(t)) /\ WF_vars(TimeOut(t))
FairSpec == Spec /\ Fairness

-----------------------------------------------------------------------------
(* The one who pushes and the one who pops never want the same slot, so that   *)
(* neither waits for the other, and no element is read while it is written,    *)
(* whatever the slot locks do.                                                 *)
SlotsDisjoint == \A p \in Producers, c \in Consumers :
    thread[p].at \in {"slot", "copy"} /\ thread[c].at \in {"slot", "copy"} => tail # head

(* The queue holds exactly the resources of the stages it has passed, however  *)
(* often initialisation failed and was tried again, and clearing loses none.   *)
HoldsWhatItPassed == life.held = HeldUpTo(life.valid) /\ life.leaked = {}

(* Only two calls run into an assertion: to clear a queue whose very first     *)
(* allocation failed, and to set an element up again after the second of the   *)
(* two serializers could not be initialised.                                   *)
AbortsOnlyIn == life.aborted => life.valid \in {"clean", "serializeWriteInit"}

(* Elements leave in the order in which they came, none twice and none before  *)
(* it is complete, and at most MaxLength are queued: the ring behaves as a     *)
(* bounded queue, in which a push and a pop happen when the counter changes.   *)
Oldest == IF \E c \in Consumers : thread[c].at = "move" THEN Following(head) ELSE head
HeldElements == [i \in 1..numElements |-> memory[(Oldest + i - 1) % MaxLength]]
Bounded == INSTANCE BoundedQueue WITH queue <- HeldElements
ImplementsQueue == Bounded!Spec

(* Every call returns, those that wait with a time limit included.             *)
CallsReturn == \A t \in Threads : ~IsIdle(t) ~> IsIdle(t)

-----------------------------------------------------------------------------
(***************************************************************************)
(* The array of persistent-storage queues of src/PQueueArray.c: how it is   *)
(* initialised, set up and cleared together with its queues, each of which  *)
(* goes through the stages of a queue above.  Pushing and popping are       *)
(* handed to the queue that the index names.                                *)
(*                                                                          *)
(* One thread initialises the array, tries again when that fails, and       *)
(* clears it.  Bound: a queue that is lost is counted up to MaxLost.        *)
(***************************************************************************)
CONSTANTS
    ArraySize,
    MaxLost

ASSUME PQueueArrayAssumption == {ArraySize, MaxLost} \subseteq Nat \ {0}

Indices == 0..ArraySize - 1

VARIABLES
    array       \* the stage, the queues and the result of the last call

(* The field valid.  0: nothing, 1: the array is allocated, 2: so are its       *)
(* queues, 3: and the mutex, 4: which is initialised.                          *)
Valid == 5          \* PQUEUEARRAY_VALID
Invalid == -1       \* PQUEUEARRAY_INVALID
NullQueue == [NewQueue EXCEPT !.valid = "clean"]

ArrayInit == array = [valid |-> 0, queues |-> [i \in Indices |-> NullQueue], status |-> "ok",
                      lost |-> 0, aborted |-> FALSE]
Capped(n) == IF n > MaxLost THEN MaxLost ELSE n

(* PQueueArray_initQueues creates and initialises the queues one after the      *)
(* other, in the memory for k - 1 of them; queue k fails.                      *)
CreatedQueues(a, k, fails) ==
    [i \in Indices |-> IF i < k THEN PQueueInit(NewQueue, {})
                       ELSE IF i = k THEN PQueueInit(NewQueue, fails) ELSE a.queues[i]]
InitQueues(a, k, fails) ==
    IF a.valid # 1 THEN a
    ELSE LET qs == CreatedQueues(a, k, fails)
             ok == \A i \in Indices : qs[i].status = "ok" /\ qs[i].valid = "miscInit"
         IN [a EXCEPT !.queues = qs, !.valid = IF ok THEN 2 ELSE 1,
                      !.status = IF ok THEN "ok" ELSE "failed",
                      !.lost = Capped(@ + Cardinality({i \in Indices :
                                   i <= k /\ a.queues[i].held # {}}))]

(* PQueueArray_initMutex *)
InitArrayMutex(a) == IF a.status = "ok" /\ a.valid \in {2, 3} THEN [a EXCEPT !.valid = 4] ELSE a

(* PQueueArray_init *)
PQueueArray_init(k, fails, noMemory) ==
    LET a == [array EXCEPT !.valid = IF @ = Invalid THEN 0 ELSE @, !.status = "ok"]
        b == IF a.valid # 0 THEN a
             ELSE [a EXCEPT !.queues = [i \in Indices |-> NullQueue],
                            !.valid = IF noMemory THEN 0 ELSE 1,
                            !.status = IF noMemory THEN "failed" ELSE "ok"]
    IN /\ ~array.aborted
       /\ array' = IF a.valid = Valid THEN [a EXCEPT !.status = "alreadySetup"]
                   ELSE IF a.valid \notin 0..2 THEN [a EXCEPT !.aborted = TRUE]
                   ELSE IF b.status = "failed" THEN b
                   ELSE InitArrayMutex(InitQueues(b, k, fails))

(* PQueueArray_setupElement: the loop ends at queue k, which fails.  A queue    *)
(* that is set up already is passed over.                                      *)
FailedSetup(q) == q.status \notin {"ok", "alreadySetup"} \/ q.aborted
PQueueArray_setupElement(k, fails) ==
    LET set(i) == PQueueSetupElement(array.queues[i], IF i = k THEN fails ELSE {})
        stop == {i \in Indices : FailedSetup(set(i))}
        end == IF stop = {} THEN ArraySize - 1 ELSE CHOOSE i \in stop : \A j \in stop : i <= j
    IN /\ ~array.aborted /\ array.valid \in {4, Valid}
       /\ array' = IF array.valid = Valid THEN [array EXCEPT !.status = "alreadySetup"]
                   ELSE [array EXCEPT
                            !.queues = [i \in Indices |-> IF i <= end THEN set(i) ELSE @[i]],
                            !.status = set(end).status,
                            !.valid = IF stop = {} THEN Valid ELSE 4,
                            !.aborted = set(end).aborted]

(* PQueueArray_clear: at stage 1 only the array itself is freed.               *)
PQueueArray_clear ==
    LET cleared == [i \in Indices |-> PQueueClear(array.queues[i])]
        qs == IF array.valid \in {2, 3, 4, Valid} THEN cleared ELSE array.queues
    IN /\ ~array.aborted /\ array.valid # Invalid
       /\ array' = IF array.valid = 0 THEN [array EXCEPT !.aborted = TRUE]
                   ELSE [array EXCEPT
                            !.valid = Invalid,
                            !.queues = [i \in Indices |-> NullQueue],
                            !.lost = Capped(@ + Cardinality({i \in Indices :
                                         qs[i].held # {} \/ qs[i].leaked # {}})),
                            !.aborted = \E i \in Indices : qs[i].aborted,
                            !.status = "ok"]

(* PQueueArray_push, _pop, _popWait, _purge and _purgeWait look the queue up;   *)
(* what a queue does with the call is the matter of module PQueue.             *)
PQueueArray_call(index) ==
    /\ ~array.aborted /\ array.valid = Valid
    /\ array' = [array EXCEPT !.status = IF index \in Indices THEN "ok" ELSE "noSuchQueue"]

ArrayNext ==
    \/ \E k \in Indices, f \in {{}} \cup {{s} : s \in Fallible} :
           \/ \E noMemory \in BOOLEAN : PQueueArray_init(k, f, noMemory)
           \/ PQueueArray_setupElement(k, f)
    \/ PQueueArray_clear
    \/ \E index \in -1..ArraySize : PQueueArray_call(index)

ArraySpec == ArrayInit /\ [][ArrayNext]_array

-----------------------------------------------------------------------------
(* An array that is set up has only queues that are set up, although a call     *)
(* may fail half-way and is tried again; before that, each of them can be set   *)
(* up.                                                                          *)
ArrayIsComplete == \A i \in Indices :
    /\ array.valid = Valid => array.queues[i].valid = "valid"
    /\ array.valid = 4 => array.queues[i].valid \notin Between("clean", "serializeReadNew")

(* A queue that holds something is forgotten only where the array is at stage  *)
(* 1: a queue could not be initialised, and the array is initialised again or   *)
(* cleared.                                                                     *)
LosesQueuesOnlyAtStage1 == [][array'.lost > array.lost => array.valid = 1]_array

(* What a process holds of the storage is what its stages opened, an array is*)
(* complete or not there, and a failing stage loses nothing but what the     *)
(* first one allocated.                                                      *)
ResourcesAreKept ==
    /\ [](TypeOK /\ HoldsWhatItPassed /\ AbortsOnlyIn /\ ArrayIsComplete)
    /\ LosesQueuesOnlyAtStage1
================================================================================
