------------------------------- MODULE SharedList -------------------------------
(***************************************************************************)
(* What src/MTList.c promises to the threads that share a list: a sequence  *)
(* to whose two ends data are added, from which an entry is removed, and in *)
(* which an entry is replaced where it stands.                              *)
(***************************************************************************)
EXTENDS Naturals, SequencesExt

CONSTANTS Data      \* the pointers that are added

VARIABLES list      \* the data, the first element first

Init == list = <<>>

Add(d) == list' = Append(list, d)
Insert(d) == list' = <<d>> \o list
RemoveFrom(i) == list' = RemoveAt(list, i)
SetAt(i, d) == list' = ReplaceAt(list, i, d)
Clear     == list # <<>> /\ list' = <<>>

Next ==
    /\ list' # list
    /\ \/ \E d \in Data : Add(d) \/ Insert(d)
       \/ \E i \in DOMAIN list : RemoveFrom(i) \/ \E d \in Data : SetAt(i, d)
       \/ Clear

Spec == Init /\ [][Next]_list
================================================================================
