-------------------------------- MODULE MCQueues --------------------------------
(***************************************************************************)
(* One run for the queue and the array of queues that processes may share,  *)
(* the descriptors of the sockets and the bytes over one connection: a      *)
(* behaviour is about one of the four, and the others stay as they are at   *)
(* first.                                                                   *)
(***************************************************************************)
EXTENDS PQueue, Sockets, TLC

QueuesRest == Init /\ ArrayInit
SocketsRest == SocketInit /\ StreamInit

MCInit == QueuesRest /\ SocketsRest
MCNext ==
    \/ ArrayInit /\ SocketsRest /\ Next /\ UNCHANGED <<array, socketVars, streamVars>>
    \/ Init /\ SocketsRest /\ ArrayNext /\ UNCHANGED <<vars, socketVars, streamVars>>
    \/ QueuesRest /\ StreamInit /\ SocketNext /\ UNCHANGED <<vars, array, streamVars>>
    \/ QueuesRest /\ SocketInit /\ StreamNext /\ UNCHANGED <<vars, array, socketVars>>

\* The stream's fairness asks nothing of the behaviours in which it rests.
OthersOfStreamRest == QueuesRest /\ SocketInit
MCSpec == /\ MCInit /\ [][MCNext]_<<vars, array, socketVars, streamVars>>
          /\ Fairness
          /\ WF_streamVars(OthersOfStreamRest /\ WriterStep)
          /\ WF_streamVars(OthersOfStreamRest /\ ReaderStep)
          /\ WF_streamVars(OthersOfStreamRest /\ (WriterCloses \/ Reset))
================================================================================
