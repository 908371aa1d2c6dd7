---------------------------- MODULE BarrierRounds ----------------------------
(***************************************************************************)
(* A fixed team of threads that meets at one Barrier again and again, the   *)
(* use Barrier.h describes: as many threads as the barrier requires.  The   *)
(* history variables count, per thread, how often it has entered and passed *)
(* Barrier_wait, and how many calls have returned true.                     *)
(*                                                                          *)
(* Bound: MaxRounds caps how often a thread enters.                         *)
(***************************************************************************)
EXTENDS Barrier

CONSTANT MaxRounds

ASSUME RoundsAssumption ==
    /\ MaxRounds \in Nat
    /\ Threads # {}

VARIABLES
    entered,    \* per thread: calls of Barrier_wait so far
    passed,     \* per thread: returns from Barrier_wait so far
    serial,     \* calls that returned true, the last arrivals
    disturbed   \* has a wait ended spuriously?

history == <<entered, passed, serial, disturbed>>
vars == <<barrierVars, history>>

RoundsTypeOK ==
    /\ TypeOK
    /\ entered \in [Threads -> Nat]
    /\ passed \in [Threads -> Nat]
    /\ serial \in Nat
    /\ disturbed \in BOOLEAN

Init ==
    /\ valid = TRUE
    /\ required = Cardinality(Threads)
    /\ arrived = 0
    /\ gone = 0
    /\ owner = NoThread
    /\ at = [t \in Threads |-> "outside"]
    /\ entered = [t \in Threads |-> 0]
    /\ passed = [t \in Threads |-> 0]
    /\ serial = 0
    /\ disturbed = FALSE

Enter(t) ==
    /\ entered[t] < MaxRounds
    /\ entered' = [entered EXCEPT ![t] = @ + 1]
    /\ \/ ArriveAndWait(t) /\ UNCHANGED serial
       \/ ArriveLast(t) /\ serial' = serial + 1
    /\ UNCHANGED <<passed, disturbed>>

Exit(t) ==
    /\ Leave(t)
    /\ passed' = [passed EXCEPT ![t] = @ + 1]
    /\ UNCHANGED <<entered, serial, disturbed>>

\* The steps between entering and leaving.
Inside(t) ==
    /\ CountGone(t) \/ ResetGone(t)
    /\ UNCHANGED history

Disturb(t) ==
    /\ WakeSpuriously(t)
    /\ disturbed' = TRUE
    /\ UNCHANGED <<entered, passed, serial>>

\* Whoever owns the barrier clears it once some thread has come through its
\* last round and Barrier_isEmpty says so, as WorkQueue_clear does.
Dismantle ==
    /\ \E t \in Threads : passed[t] = MaxRounds
    /\ Clear
    /\ UNCHANGED history

Next ==
    \/ \E t \in Threads : Enter(t) \/ Exit(t) \/ Inside(t) \/ Disturb(t)
    \/ Dismantle

Spec == Init /\ [][Next]_vars

\* A thread that is not blocked takes its next step, and a free mutex is given
\* to a thread that has been waiting for it all along.  Nobody is obliged to
\* clear the barrier, and no wait is obliged to end spuriously.
Fairness == \A t \in Threads : WF_vars(Enter(t)) /\ WF_vars(Exit(t)) /\ WF_vars(Inside(t))

FairSpec == Spec /\ Fairness

-----------------------------------------------------------------------------
(* No thread passes a round before every thread has entered it, and between  *)
(* the two lies exactly one call per round that returned true, as long as no *)
(* wait has ended spuriously.                                                 *)
NoEarlyPass ==
    ~disturbed => \A t, u \in Threads : passed[t] <= serial /\ serial <= entered[u]

(* Once some thread has come through the last round, Barrier_isEmpty tells    *)
(* the truth about the sleepers, so that whoever clears the barrier, as       *)
(* WorkQueue_clear does, strands none of them in the condition.               *)
EmptyAfterPass ==
    (\E t \in Threads : passed[t] = MaxRounds) /\ valid /\ IsEmpty /\ ~disturbed
        => \A t \in Threads : at[t] \notin {"waiting", "released"}

\* The calls of Barrier_wait so far.
Calls == {c \in Threads \X (1..MaxRounds) : c[2] <= entered[c[1]]}

(* Of every `required' calls exactly one returns true, the one that completed *)
(* them, even if waits end early: the calls that are not yet part of a        *)
(* completed round are the ones counted in `arrived'.                         *)
OneSerialPerRound ==
    valid => Cardinality(Calls) = serial * required + arrived

(* Every thread gets through all its rounds, unless a wait ends spuriously. *)
AllRoundsPass == \A t \in Threads : <>(passed[t] = MaxRounds \/ disturbed)

(* A round is passed by all of the team together, and by one of them as the  *)
(* last.                                                                     *)
PassesTogether ==
    /\ NoEarlyPass
    /\ OneSerialPerRound
=============================================================================
