---------------------------- MODULE BarrierProofs ----------------------------
(***************************************************************************)
(* Proofs about BarrierRounds: with as many threads as the barrier requires *)
(* nobody passes a round before all have entered it, unless a wait has      *)
(* ended spuriously, and every round has one call that returns true, for    *)
(* any number of threads and rounds.                                        *)
(***************************************************************************)
EXTENDS BarrierRounds, FiniteSetTheorems, TLAPS

\* What the position of a thread says about the rounds it has entered and
\* passed: `serial' rounds are complete, whoever waits has entered the next.
Position(t) ==
    CASE at[t] = "outside" -> entered[t] = serial /\ passed[t] = serial
      [] at[t] = "waiting" -> entered[t] = serial + 1 /\ passed[t] = serial
      [] OTHER             -> entered[t] = serial /\ passed[t] + 1 = serial

\* Waiters are only those of the round that is not complete, so they are the
\* ones counted in `arrived', and a thread that is still on its way out of the
\* last round keeps the next one from completing.
RoundsInv ==
    /\ ~disturbed
    /\ RoundsTypeOK
    /\ required = Cardinality(Threads)
    /\ arrived = Cardinality(Waiting) \/ ~valid
    /\ \A t \in Threads : Position(t)

LEMMA ThreadsFinite ==
    /\ IsFiniteSet(Threads) /\ Cardinality(Threads) \in Nat
    /\ IsFiniteSet(Waiting) /\ Cardinality(Waiting) \in Nat
    /\ Waiting \subseteq Threads
<1>1. IsFiniteSet(Threads) /\ Waiting \subseteq Threads
  BY BarrierAssumption DEF Waiting
<1> QED BY <1>1, FS_Subset, FS_CardinalityType

\* The last to arrive finds all others waiting.
LEMMA LastFindsAllWaiting ==
    ASSUME NEW t \in Threads, at[t] = "outside",
           required = Cardinality(Threads), arrived = Cardinality(Waiting),
           arrived + 1 >= required
    PROVE  Waiting = Threads \ {t}
<1>1. IsFiniteSet(Threads \ {t}) /\ Cardinality(Threads \ {t}) = Cardinality(Threads) - 1
  BY ThreadsFinite, FS_RemoveElement
<1>2. Waiting \subseteq Threads \ {t}
  BY DEF Waiting
<1>3. Cardinality(Waiting) <= Cardinality(Threads \ {t})
  BY <1>1, <1>2, FS_Subset
<1>4. Cardinality(Waiting) = Cardinality(Threads \ {t})
  BY <1>1, <1>3, ThreadsFinite
<1> QED BY <1>1, <1>2, <1>4, FS_Subset

-----------------------------------------------------------------------------
\* The variables keep their types in every step.
LEMMA RoundsTypeStep == RoundsTypeOK /\ [Next]_vars => RoundsTypeOK'
<1> SUFFICES ASSUME RoundsTypeOK, [Next]_vars PROVE RoundsTypeOK'
  OBVIOUS
<1> USE DEF BarrierState, RoundsTypeOK, TypeOK
<1>1. ASSUME NEW t \in Threads, Enter(t) PROVE RoundsTypeOK'
  BY <1>1 DEF Enter, ArriveAndWait, ArriveLast
<1>2. ASSUME NEW t \in Threads, Exit(t) PROVE RoundsTypeOK'
  BY <1>2 DEF Exit, Leave
<1>3. ASSUME NEW t \in Threads, Inside(t) PROVE RoundsTypeOK'
  BY <1>3 DEF Inside, CountGone, ResetGone, history
<1>4. ASSUME NEW t \in Threads, Disturb(t) PROVE RoundsTypeOK'
  BY <1>4 DEF Disturb, WakeSpuriously
<1>5. CASE Dismantle
  BY <1>5 DEF Dismantle, Clear, history
<1>6. CASE UNCHANGED vars
  BY <1>6 DEF vars, barrierVars, history
<1> QED BY <1>1, <1>2, <1>3, <1>4, <1>5, <1>6 DEF Next

LEMMA RoundsTypeStart == Init => RoundsTypeOK
<1> SUFFICES ASSUME Init PROVE RoundsTypeOK
  OBVIOUS
<1>1. Cardinality(Threads) \in Nat
  BY ThreadsFinite
<1>2. [t \in Threads |-> "outside"] \in [Threads -> BarrierState]
  BY DEF BarrierState
<1>3. [t \in Threads |-> 0] \in [Threads -> Nat]
  OBVIOUS
<1>4. TypeOK
  BY <1>1, <1>2 DEF Init, TypeOK
<1> QED BY <1>3, <1>4 DEF Init, RoundsTypeOK

\* The barrier's variables and the history have their types in every state.
THEOREM BarrierTypeCorrect == Spec => []RoundsTypeOK
BY RoundsTypeStart, RoundsTypeStep, PTL DEF Spec

-----------------------------------------------------------------------------
\* Every step that is no spurious wakeup keeps the invariant.
LEMMA RoundsStep == RoundsInv /\ [Next]_vars => RoundsInv' \/ disturbed'
<1> SUFFICES ASSUME RoundsInv, [Next]_vars, ~disturbed' PROVE RoundsInv'
  OBVIOUS
<1>r. RoundsTypeOK'
  BY RoundsTypeStep DEF RoundsInv
<1> USE DEF BarrierState, RoundsTypeOK, TypeOK
<1>0. NoThread \notin Threads /\ Cardinality(Threads) \in Nat
  BY BarrierAssumption, ThreadsFinite
<1>1. ASSUME NEW t \in Threads, Enter(t) PROVE RoundsInv'
  <2>1. CASE ArriveAndWait(t)
    <3>1. RoundsTypeOK' /\ required' = required
      BY <1>1, <2>1 DEF Enter, ArriveAndWait, ArriveLast, RoundsInv
    <3>2. Waiting' = Waiting \cup {t} /\ t \notin Waiting
      BY <2>1 DEF ArriveAndWait, Waiting, RoundsInv
    <3>3. arrived' = Cardinality(Waiting')
      BY <2>1, <3>2, ThreadsFinite, FS_AddElement DEF ArriveAndWait, RoundsInv
    <3>4. serial' = serial
      BY <1>1, <2>1 DEF Enter, ArriveAndWait, ArriveLast, RoundsInv
    <3>5. ASSUME NEW u \in Threads PROVE Position(u)'
      BY <1>1, <2>1, <3>4 DEF Enter, ArriveAndWait, RoundsInv, Position
    <3> QED BY <3>1, <3>3, <3>5 DEF RoundsInv
  <2>2. CASE ArriveLast(t)
    <3>1. Waiting = Threads \ {t}
      BY <2>2, LastFindsAllWaiting DEF ArriveLast, RoundsInv
    <3>2. serial' = serial + 1
      BY <1>1, <2>2 DEF Enter, ArriveAndWait, ArriveLast, RoundsInv
    <3>3. at' = [u \in Threads |-> IF u = t THEN "leaving" ELSE "released"]
      BY <2>2, <3>1 DEF ArriveLast
    <3>4. RoundsTypeOK' /\ required' = required
      BY <1>1, <2>2, <3>2, <3>3 DEF Enter, ArriveLast, RoundsInv
    <3>5. Waiting' = {}
      BY <3>3 DEF Waiting
    <3>6. arrived' = Cardinality(Waiting')
      BY <2>2, <3>5, FS_EmptySet DEF ArriveLast
    <3>7. ASSUME NEW u \in Threads PROVE Position(u)'
      <4>1. entered[u] = IF u = t THEN serial ELSE serial + 1
        BY <2>2, <3>1 DEF ArriveLast, RoundsInv, Position, Waiting
      <4>2. passed[u] = serial
        BY <2>2, <3>1 DEF ArriveLast, RoundsInv, Position, Waiting
      <4>3. entered'[u] = serial + 1 /\ passed' = passed
        BY <1>1, <4>1 DEF Enter, RoundsInv
      <4>4. at'[u] \notin {"outside", "waiting"}
        BY <3>3
      <4> QED BY <4>2, <4>3, <4>4, <3>2 DEF RoundsInv, Position
    <3> QED BY <3>4, <3>6, <3>7 DEF RoundsInv
  <2> QED BY <1>1, <2>1, <2>2 DEF Enter
<1>2. ASSUME NEW t \in Threads, Exit(t) PROVE RoundsInv'
  <2>1. Waiting' = Waiting
    BY <1>2 DEF Exit, Leave, Waiting, RoundsInv
  <2>2. RoundsTypeOK'
    BY <1>2, <1>0 DEF Exit, Leave, RoundsInv
  <2>3. ASSUME NEW u \in Threads PROVE Position(u)'
    BY <1>2 DEF Exit, Leave, RoundsInv, Position
  <2> QED BY <1>2, <2>1, <2>2, <2>3 DEF Exit, Leave, RoundsInv
<1>3. ASSUME NEW t \in Threads, Inside(t) PROVE RoundsInv'
  <2>1. Waiting' = Waiting
    BY <1>3 DEF Inside, history, CountGone, ResetGone, Waiting, RoundsInv
  <2>2. RoundsTypeOK'
    BY <1>3 DEF Inside, history, CountGone, ResetGone, RoundsInv
  <2>3. ASSUME NEW u \in Threads PROVE Position(u)'
    BY <1>3 DEF Inside, history, CountGone, ResetGone, RoundsInv, Position
  <2> QED BY <1>3, <2>1, <2>2, <2>3 DEF Inside, history, CountGone, ResetGone, RoundsInv
<1>4. ASSUME NEW t \in Threads, Disturb(t) PROVE RoundsInv'
  BY <1>4 DEF Disturb
<1>5. CASE Dismantle
  BY <1>5 DEF Dismantle, Clear, history, RoundsInv, Position, Waiting
<1>6. CASE UNCHANGED vars
  BY <1>6 DEF vars, barrierVars, history, RoundsInv, Position, Waiting
<1> QED BY <1>1, <1>2, <1>3, <1>4, <1>5, <1>6 DEF Next

LEMMA RoundsStart == Init => RoundsInv
<1> SUFFICES ASSUME Init PROVE RoundsInv
  OBVIOUS
<1>1. Waiting = {}
  BY DEF Init, Waiting
<1>2. Cardinality(Waiting) = 0
  BY <1>1, FS_EmptySet
<1> QED
  BY <1>2, ThreadsFinite, BarrierAssumption
  DEF Init, RoundsInv, RoundsTypeOK, TypeOK, BarrierState, Position

\* Disturbed or not stays as it is but for a spurious wakeup.
LEMMA DisturbedStays == disturbed /\ [Next]_vars => disturbed'
BY DEF Next, Enter, Exit, Inside, Disturb, Dismantle, vars, history

\* Nobody passes a round before everybody has entered it.
THEOREM BarrierHolds == Spec => []NoEarlyPass
<1>1. RoundsInv => NoEarlyPass
  BY DEF RoundsInv, NoEarlyPass, Position, RoundsTypeOK, TypeOK, BarrierState
<1>2. disturbed => NoEarlyPass
  BY DEF NoEarlyPass
<1> QED BY <1>1, <1>2, RoundsStart, RoundsStep, DisturbedStays, PTL DEF Spec

-----------------------------------------------------------------------------
\* What makes the count of the calls inductive: a round never overflows.
CallsInv ==
    /\ RoundsTypeOK
    /\ required = Cardinality(Threads)
    /\ valid => arrived < required
    /\ OneSerialPerRound

\* The calls so far are finitely many, and entering adds one of them.
LEMMA CallsFinite ==
    ASSUME RoundsTypeOK
    PROVE  IsFiniteSet(Calls) /\ Cardinality(Calls) \in Nat
<1>1. IsFiniteSet(Threads) /\ IsFiniteSet(1..MaxRounds)
  BY ThreadsFinite, RoundsAssumption, FS_Interval
<1>2. IsFiniteSet(Threads \X (1..MaxRounds)) /\ Calls \subseteq Threads \X (1..MaxRounds)
  BY <1>1, FS_Product DEF Calls
<1> QED BY <1>2, FS_Subset, FS_CardinalityType

LEMMA EnteringIsACall ==
    ASSUME RoundsTypeOK, NEW t \in Threads, Enter(t)
    PROVE  Cardinality(Calls') = Cardinality(Calls) + 1
<1>1. entered[t] \in Nat /\ entered[t] + 1 \in 1..MaxRounds
  BY RoundsAssumption DEF Enter, RoundsTypeOK
<1>2. Calls' = Calls \cup {<<t, entered[t] + 1>>}
  <2>1. ASSUME NEW u \in Threads, NEW n \in 1..MaxRounds
        PROVE  n <= entered'[u] <=> n <= entered[u] \/ (u = t /\ n = entered[t] + 1)
    BY <1>1 DEF Enter, RoundsTypeOK
  <2> QED BY <1>1, <2>1 DEF Calls
<1>3. <<t, entered[t] + 1>> \notin Calls
  BY <1>1 DEF Calls
<1> QED BY <1>2, <1>3, CallsFinite, FS_AddElement

LEMMA CallsStep == CallsInv /\ [Next]_vars => CallsInv'
<1> SUFFICES ASSUME CallsInv, [Next]_vars PROVE CallsInv'
  OBVIOUS
<1>0. RoundsTypeOK /\ RoundsTypeOK' /\ required \in Nat /\ serial \in Nat /\ arrived \in Nat
  BY RoundsTypeStep DEF CallsInv, RoundsTypeOK, TypeOK
<1>1. ASSUME NEW t \in Threads, Enter(t) PROVE CallsInv'
  <2>1. Cardinality(Calls') = Cardinality(Calls) + 1
    BY <1>0, <1>1, EnteringIsACall
  <2>2. /\ required' = required /\ valid' = valid /\ valid
        /\ Cardinality(Calls) = serial * required + arrived
    BY <1>1 DEF Enter, ArriveAndWait, ArriveLast, CallsInv, OneSerialPerRound
  <2>3. CASE ArriveAndWait(t) /\ UNCHANGED serial
    <3>1. arrived' = arrived + 1 /\ arrived' < required' /\ serial' = serial
      BY <2>3 DEF ArriveAndWait
    <3>2. serial * required \in Nat
      BY <1>0
    <3>3. Cardinality(Calls') = serial' * required' + arrived'
      BY <2>1, <2>2, <3>1, <3>2, <1>0
    <3> QED BY <1>0, <2>2, <3>1, <3>3 DEF CallsInv, OneSerialPerRound
  <2>4. CASE ArriveLast(t) /\ serial' = serial + 1
    <3>1. arrived' = 0 /\ arrived + 1 = required /\ arrived' < required'
      BY <2>2, <2>4, <1>0 DEF ArriveLast, CallsInv
    <3>2. serial' * required' = serial * required + required /\ serial * required \in Nat
      BY <2>2, <2>4, <1>0
    <3>3. Cardinality(Calls') = serial' * required' + arrived'
      BY <2>1, <2>2, <3>1, <3>2, <1>0
    <3> QED BY <1>0, <2>2, <3>1, <3>3 DEF CallsInv, OneSerialPerRound
  <2> QED BY <1>1, <2>3, <2>4 DEF Enter
<1>2. ASSUME NEW t \in Threads, Exit(t) \/ Inside(t) \/ Disturb(t) PROVE CallsInv'
  <2>1. UNCHANGED <<valid, required, arrived, entered, serial>>
    BY <1>2 DEF Exit, Inside, Disturb, Leave, CountGone, ResetGone, WakeSpuriously, history
  <2> QED BY <1>0, <2>1 DEF CallsInv, OneSerialPerRound, Calls
<1>3. CASE Dismantle
  BY <1>0, <1>3 DEF Dismantle, Clear, CallsInv, OneSerialPerRound
<1>4. CASE UNCHANGED vars
  BY <1>0, <1>4 DEF vars, barrierVars, history, CallsInv, OneSerialPerRound, Calls
<1> QED BY <1>1, <1>2, <1>3, <1>4 DEF Next

\* Of every `required' calls exactly one returns true, spurious wakeups or not.
THEOREM BarrierElectsOne == Spec => []OneSerialPerRound
<1>1. Init => CallsInv
  <2> SUFFICES ASSUME Init PROVE CallsInv
    OBVIOUS
  <2>1. Calls = {} /\ Cardinality(Calls) = 0
    BY FS_EmptySet DEF Init, Calls
  <2>2. Cardinality(Threads) \in Nat /\ Cardinality(Threads) # 0
    BY ThreadsFinite, RoundsAssumption, FS_EmptySet
  <2> QED BY <2>1, <2>2, RoundsTypeStart DEF Init, CallsInv, OneSerialPerRound
<1>2. CallsInv => OneSerialPerRound
  BY DEF CallsInv
<1> QED BY <1>1, <1>2, CallsStep, PTL DEF Spec

\* A round is passed by all of the team together, and one call of it is the
\* last.
THEOREM BarrierPassesTogether == Spec => []PassesTogether
BY BarrierHolds, BarrierElectsOne, PTL DEF PassesTogether

-----------------------------------------------------------------------------
(* What Barrier_isEmpty tells after the last round.                          *)

Released == {t \in Threads : at[t] = "released"}

\* Until the first thread comes back for another round, `gone' counts those
\* that have come out of the condition since it was complete; a thread that
\* comes back makes ResetGone compare it with the arrivals of a new round.
GoneInv ==
    /\ \A t \in Threads : entered[t] <= MaxRounds
    /\ valid /\ arrived = 0 /\ serial > 0 => gone = Cardinality(Threads \ Released)

\* The threads that are not released are finitely many.
LEMMA OutFinite ==
    /\ IsFiniteSet(Threads \ Released) /\ Cardinality(Threads \ Released) \in Nat
    /\ Cardinality(Threads \ Released) <= Cardinality(Threads)
    /\ Cardinality(Threads \ Released) = Cardinality(Threads) => Released = {}
    /\ Cardinality(Threads \ Released) = 0 => Released = Threads
<1>1. IsFiniteSet(Threads) /\ Threads \ Released \subseteq Threads /\ Released \subseteq Threads
  BY BarrierAssumption DEF Released
<1>2. IsFiniteSet(Threads \ Released)
  BY <1>1, FS_Subset
<1> QED BY <1>1, <1>2, FS_Subset, FS_CardinalityType, FS_EmptySet

LEMMA GoneStep ==
    RoundsInv /\ GoneInv /\ [Next]_vars /\ ~disturbed' => GoneInv'
<1> SUFFICES ASSUME RoundsInv, GoneInv, [Next]_vars, ~disturbed' PROVE GoneInv'
  OBVIOUS
<1>0. /\ RoundsTypeOK /\ RoundsTypeOK' /\ RoundsInv'
      /\ arrived \in Nat /\ serial \in Nat /\ MaxRounds \in Nat
      /\ entered \in [Threads -> Nat] /\ at \in [Threads -> BarrierState]
  BY RoundsStep, RoundsAssumption DEF RoundsInv, RoundsTypeOK, TypeOK
<1>1. ASSUME NEW t \in Threads, Enter(t) PROVE GoneInv'
  <2>1. \A u \in Threads : entered'[u] <= MaxRounds
    BY <1>0, <1>1 DEF Enter, GoneInv
  <2>2. CASE ArriveAndWait(t)
    BY <1>0, <2>1, <2>2 DEF ArriveAndWait, GoneInv
  <2>3. CASE ArriveLast(t)
    <3>1. Waiting = Threads \ {t}
      BY <2>3, LastFindsAllWaiting DEF ArriveLast, RoundsInv
    <3>2. at' = [u \in Threads |-> IF u = t THEN "leaving" ELSE "released"]
      BY <2>3, <3>1 DEF ArriveLast
    <3>3. Threads \ Released' = {t}
      BY <3>2 DEF Released
    <3>4. Cardinality({t}) = 1
      BY FS_Singleton
    <3> QED BY <2>1, <2>3, <3>3, <3>4 DEF ArriveLast, GoneInv
  <2> QED BY <1>1, <2>2, <2>3 DEF Enter
<1>2. ASSUME NEW t \in Threads, Exit(t) PROVE GoneInv'
  <2>1. Released' = Released
    BY <1>0, <1>2 DEF Exit, Leave, Released
  <2> QED BY <1>2, <2>1 DEF Exit, Leave, GoneInv
<1>3. ASSUME NEW t \in Threads, CountGone(t), UNCHANGED history PROVE GoneInv'
  <2>1. /\ Threads \ Released' = (Threads \ Released) \cup {t}
        /\ t \notin Threads \ Released
    BY <1>0, <1>3 DEF CountGone, Released
  <2>2. Cardinality(Threads \ Released') = Cardinality(Threads \ Released) + 1
    BY <2>1, OutFinite, FS_AddElement
  <2> QED BY <1>3, <2>2 DEF CountGone, GoneInv, history
<1>4. ASSUME NEW t \in Threads, ResetGone(t), UNCHANGED history PROVE GoneInv'
  <2>1. Released' = Released /\ t \in Threads \ Released
    BY <1>0, <1>4 DEF ResetGone, Released
  <2>2. Cardinality(Threads \ Released) # 0
    BY <2>1, OutFinite
  <2>3. valid /\ arrived = 0 /\ serial > 0 => gone' = gone
    BY <1>4, <2>2 DEF ResetGone, GoneInv
  <2> QED BY <1>4, <2>1, <2>3 DEF ResetGone, GoneInv, history
<1>5. ASSUME NEW t \in Threads, Disturb(t) PROVE GoneInv'
  BY <1>5 DEF Disturb
<1>6. CASE Dismantle
  BY <1>6 DEF Dismantle, Clear, history, GoneInv, Released
<1>7. CASE UNCHANGED vars
  BY <1>7 DEF vars, barrierVars, history, GoneInv, Released
<1> QED BY <1>1, <1>2, <1>3, <1>4, <1>5, <1>6, <1>7 DEF Next, Inside

\* Whoever finds the barrier empty after the last round strands no sleeper.
THEOREM BarrierIsEmptyAfterPass == Spec => []EmptyAfterPass
<1>1. RoundsInv /\ GoneInv => EmptyAfterPass
  <2> SUFFICES ASSUME RoundsInv, GoneInv, valid, IsEmpty,
                      NEW t \in Threads, passed[t] = MaxRounds, NEW u \in Threads
               PROVE  at[u] \notin {"waiting", "released"}
    BY DEF EmptyAfterPass
  <2>0. /\ MaxRounds \in Nat /\ serial \in Nat /\ arrived \in Nat /\ gone \in Nat
        /\ entered \in [Threads -> Nat] /\ passed \in [Threads -> Nat]
        /\ at \in [Threads -> BarrierState]
    BY RoundsAssumption DEF RoundsInv, RoundsTypeOK, TypeOK
  <2>1. at[t] # "released" /\ serial >= MaxRounds
    BY <2>0 DEF RoundsInv, GoneInv, Position, BarrierState
  <2>2. \A w \in Threads : at[w] # "waiting"
    BY <2>0, <2>1 DEF RoundsInv, GoneInv, Position, BarrierState
  <2>3. arrived = 0
    <3>1. Waiting = {}
      BY <2>2 DEF Waiting
    <3> QED BY <3>1, FS_EmptySet DEF RoundsInv
  <2>4. CASE serial = 0
    BY <2>0, <2>1, <2>4, <2>2 DEF RoundsInv, Position, BarrierState
  <2>5. CASE serial > 0
    <3>1. gone = Cardinality(Threads \ Released)
      BY <2>3, <2>5 DEF GoneInv
    <3>2. Released # Threads
      BY <2>1 DEF Released
    <3>3. gone >= Cardinality(Threads)
      BY <3>1, <3>2, OutFinite DEF IsEmpty, RoundsInv
    <3>4. Released = {}
      BY <2>0, <3>1, <3>3, OutFinite, ThreadsFinite
    <3> QED BY <2>2, <3>4 DEF Released
  <2> QED BY <2>0, <2>4, <2>5
<1>2. disturbed => EmptyAfterPass
  BY DEF EmptyAfterPass
<1>3. Init => GoneInv
  BY RoundsAssumption DEF Init, GoneInv
<1>4. (RoundsInv /\ GoneInv) /\ [Next]_vars => (RoundsInv /\ GoneInv)' \/ disturbed'
  BY GoneStep, RoundsStep
<1> QED BY <1>1, <1>2, <1>3, <1>4, RoundsStart, DisturbedStays, PTL DEF Spec
=============================================================================
