------------------------------- MODULE Barrier -------------------------------
(***************************************************************************)
(* The thread barrier of src/Barrier.c: a mutex, a condition variable and   *)
(* two counters.  `arrived' counts the threads of the current round under   *)
(* the mutex; `gone' counts those that have come out again and is also read *)
(* without the mutex, by Barrier_isEmpty.                                   *)
(***************************************************************************)
EXTENDS Naturals, FiniteSets

CONSTANTS
    Threads,    \* the threads that may call Barrier_wait
    NoThread    \* owner of an unlocked mutex

ASSUME BarrierAssumption ==
    /\ IsFiniteSet(Threads)
    /\ NoThread \notin Threads

VARIABLES
    valid,      \* self->valid = BARRIER_VALID
    required,   \* self->required
    arrived,    \* self->arrived
    gone,       \* self->gone
    owner,      \* the thread that holds self->mutex
    at          \* where each thread is in Barrier_wait

barrierVars == <<valid, required, arrived, gone, owner, at>>

\* outside:  not in Barrier_wait
\* waiting:  blocked in pthread_cond_wait
\* released: woken, must get the mutex back before pthread_cond_wait returns
\* counting: holds the mutex, has incremented gone
\* leaving:  holds the mutex, about to unlock it and return
BarrierState == {"outside", "waiting", "released", "counting", "leaving"}

Waiting == {t \in Threads : at[t] = "waiting"}

TypeOK ==
    /\ valid \in BOOLEAN
    /\ required \in Nat
    /\ arrived \in Nat
    /\ gone \in Nat
    /\ owner \in Threads \cup {NoThread}
    /\ at \in [Threads -> BarrierState]

(* Barrier_new: calloc leaves everything zero *)
Allocated ==
    /\ valid = FALSE
    /\ required = 0
    /\ arrived = 0
    /\ gone = 0
    /\ owner = NoThread
    /\ at = [t \in Threads |-> "outside"]

(* Barrier_init *)
Initialize(count) ==
    /\ valid' = TRUE
    /\ required' = count
    /\ arrived' = 0
    /\ gone' = 0
    /\ UNCHANGED <<owner, at>>

-----------------------------------------------------------------------------
(* Barrier_wait up to pthread_cond_wait, for a thread that is not the last *)
ArriveAndWait(t) ==
    /\ valid /\ at[t] = "outside" /\ owner = NoThread
    /\ arrived + 1 < required
    /\ arrived' = arrived + 1
    /\ at' = [at EXCEPT ![t] = "waiting"]
    /\ UNCHANGED <<valid, required, gone, owner>>

\* Mutants of the last arrival: it does not wait for the last thread, or
\* it signals the condition instead of broadcasting on it.
ArriveLastEarly(t) ==
    /\ valid /\ at[t] = "outside" /\ owner = NoThread
    /\ arrived + 1 >= required - 1
    /\ gone' = 1
    /\ arrived' = 0
    /\ owner' = t
    /\ at' = [u \in Threads |-> IF u = t THEN "leaving"
                                ELSE IF u \in Waiting THEN "released" ELSE at[u]]
    /\ UNCHANGED <<valid, required>>

ArriveLastSignals(t) ==
    /\ valid /\ at[t] = "outside" /\ owner = NoThread
    /\ arrived + 1 >= required
    /\ gone' = 1
    /\ arrived' = 0
    /\ owner' = t
    /\ \/ Waiting = {} /\ at' = [at EXCEPT ![t] = "leaving"]
       \/ \E w \in Waiting : at' = [at EXCEPT ![t] = "leaving", ![w] = "released"]
    /\ UNCHANGED <<valid, required>>

(* Barrier_wait up to pthread_mutex_unlock, for the last thread: it starts   *)
(* the count of the gone at itself and opens a new round.                    *)
ArriveLast(t) ==
    /\ valid /\ at[t] = "outside" /\ owner = NoThread
    /\ arrived + 1 >= required
    /\ gone' = 1
    /\ arrived' = 0
    /\ owner' = t
    /\ at' = [u \in Threads |-> IF u = t THEN "leaving"
                                ELSE IF u \in Waiting THEN "released" ELSE at[u]]
    /\ UNCHANGED <<valid, required>>

(* pthread_cond_wait returns, Atomic_inc *)
CountGone(t) ==
    /\ at[t] = "released" /\ owner = NoThread
    /\ owner' = t
    /\ gone' = gone + 1
    /\ at' = [at EXCEPT ![t] = "counting"]
    /\ UNCHANGED <<valid, required, arrived>>

(* Atomic_testAndSetValue( &gone, arrived, 0 ) *)
ResetGone(t) ==
    /\ at[t] = "counting"
    /\ gone' = IF gone = arrived THEN 0 ELSE gone
    /\ at' = [at EXCEPT ![t] = "leaving"]
    /\ UNCHANGED <<valid, required, arrived, owner>>

(* pthread_mutex_unlock and return *)
Leave(t) ==
    /\ at[t] = "leaving"
    /\ owner' = NoThread
    /\ at' = [at EXCEPT ![t] = "outside"]
    /\ UNCHANGED <<valid, required, arrived, gone>>

(* POSIX lets pthread_cond_wait return although nobody broadcast *)
WakeSpuriously(t) ==
    /\ at[t] = "waiting"
    /\ at' = [at EXCEPT ![t] = "released"]
    /\ UNCHANGED <<valid, required, arrived, gone, owner>>

\* Mutant: one waiter too few.
IsEmptyBeforeLast == gone = 0 \/ gone >= required - 1

(* Barrier_isEmpty *)
IsEmpty == gone = 0 \/ gone >= required

(* Barrier_clear, which destroys the mutex and the condition *)
Clear ==
    /\ valid
    /\ IsEmpty
    /\ valid' = FALSE
    /\ arrived' = 0
    /\ gone' = 0
    /\ UNCHANGED <<required, owner, at>>
=============================================================================
