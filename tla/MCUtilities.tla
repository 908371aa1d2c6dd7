------------------------------- MODULE MCUtilities -------------------------------
(***************************************************************************)
(* One run for the data structures that threads share or do not, the        *)
(* rectangles and the timer.  A behaviour is about one of them, and the     *)
(* others stay as they are at first.                                        *)
(***************************************************************************)
EXTENDS HashTable, ArrayList, MTList, Geometry, RTTimer

CONSTANTS k1, k2, k3,
          Poppers, Pushed, Nodes, NoNode    \* of the queue of nodes

\* There are finitely many addresses, and none of them is NULL.
ASSUME NodesAssumption == IsFiniteSet(Nodes) /\ NoNode \notin Nodes

VARIABLES allocated, next, data, head, tail, numElements, type, quit, popper

queueVars == <<allocated, next, data, head, tail, numElements, type, quit, popper>>

Q == INSTANCE MTQueueNodes WITH Threads <- Poppers, Data <- Pushed, Null <- NoNode

(* Two keys with the same hash value, and a third that shares a bucket with    *)
(* them in the first and in the last of the tables.                            *)
MCHash == [k \in Keys |-> IF k = k3 THEN 11 ELSE 1]
MCPrimes == <<2, 3, 5>>
MCOwnership == {<<TRUE, TRUE>>}

MCXs == -1 .. 2
MCYs == 0 .. 1
MCCoordinates == -3 .. 6
MCScales == {<<1, 2>>, <<3, 2>>, <<1, 1>>, <<2, 1>>, <<1, 3>>}
MCUnits == <<2, 2, 2, 2>>

(* A queue of nodes that is left alone is in one of its first states.          *)
QueueRests == Q!Init /\ type = "FIFO" /\ \A n \in Nodes : data[n] = CHOOSE d \in Pushed : TRUE
TablesRest == TableInit /\ ListInit
OthersRest == GeometryInit /\ TimerInit

MCInit == TableInit /\ ListInit /\ Init /\ GeometryInit /\ TimerInit /\ Q!Init

MCNext ==
    \/ /\ ListInit /\ Init /\ OthersRest /\ QueueRests
       /\ TableNext /\ UNCHANGED <<listVars, vars, geometryVars, timerVars, queueVars>>
    \/ /\ TableInit /\ Init /\ OthersRest /\ QueueRests
       /\ ListNext /\ UNCHANGED <<tableVars, vars, geometryVars, timerVars, queueVars>>
    \/ /\ TablesRest /\ OthersRest /\ QueueRests
       /\ Next /\ UNCHANGED <<tableVars, listVars, geometryVars, timerVars, queueVars>>
    \/ /\ TablesRest /\ Init /\ TimerInit /\ QueueRests
       /\ GeometryNext /\ UNCHANGED <<tableVars, listVars, vars, timerVars, queueVars>>
    \/ /\ TablesRest /\ Init /\ GeometryInit /\ QueueRests
       /\ TimerNext /\ UNCHANGED <<tableVars, listVars, vars, geometryVars, queueVars>>
    \/ /\ TablesRest /\ Init /\ OthersRest
       /\ Q!Next /\ UNCHANGED <<tableVars, listVars, vars, geometryVars, timerVars>>
MCSpec == MCInit /\ [][MCNext]_<<tableVars, listVars, vars, geometryVars, timerVars, queueVars>>

(* What a call of the hash table returned decides nothing later. *)
MCView == <<ht, it, list, returned, vars, geometryVars, timerVars, queueVars>>
MCSymmetry == Permutations(Data)

(* No pointer of the queue of nodes dangles, its nodes are as many as it     *)
(* counts, and it implements the sequence of module MTQueue.                 *)
NodesAreAQueue ==
    /\ [](Q!TypeOK /\ Q!ListWellFormed)
    /\ Q!ImplementsQueue
================================================================================
