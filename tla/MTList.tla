--------------------------------- MODULE MTList ---------------------------------
(***************************************************************************)
(* The linked list of src/MTList.c under threads that share it.  Whoever    *)
(* changes the chain of elements holds the list's lock for writing; whoever *)
(* walks along it holds that lock for reading and, around each callback,    *)
(* the lock of the element as well.  MTList_set replaces an element's data  *)
(* under the two read locks.                                                *)
(*                                                                          *)
(* A call that holds the list's lock for writing is one step, since no      *)
(* other thread touches the chain meanwhile; a walk is a step for each lock *)
(* and each callback.  Only MTList_search and MTList_iterate touch an       *)
(* element after they have released the list's lock, to return its data: a  *)
(* step of its own.  The system's reader-writer locks let a reader in       *)
(* whenever no writer holds the lock.                                       *)
(*                                                                          *)
(* The callers hand each pointer to the list once, only one thread calls    *)
(* MTList_set, MTList_clear is called while no other thread uses the list,  *)
(* and a thread goes on with MTList_getNextElement only from an element     *)
(* that is still in the list.                                               *)
(*                                                                          *)
(* Bounds: the elements that are ever created, 1..MaxElems.                 *)
(***************************************************************************)
EXTENDS Naturals, Sequences

CONSTANTS
    Threads,
    Setters,    \* the thread that calls MTList_set, if one does
    Data,       \* what the elements point to
    MaxElems,
    Nil

ASSUME MTListAssumption ==
    /\ MaxElems \in Nat \ {0}
    /\ Setters \subseteq Threads /\ \A s, t \in Setters : s = t
    /\ Nil \notin Data \cup Threads \cup 1..MaxElems

Elems == 1..MaxElems

VARIABLES
    first, last,    \* the ends of the chain
    numElement,
    automatic,      \* is deleteMode MTLIST_DELETEMODE_AUTOMATIC?
    elem,           \* the elements
    readers,        \* the threads that hold the list's lock for reading
    thread,         \* what each thread is doing
    given,          \* the data handed to the list
    back,           \* the data that belong to a caller again
    disposed        \* the data that the list has freed

vars == <<first, last, numElement, automatic, elem, readers, thread, given, back, disposed>>
chainVars == <<first, last, numElement, automatic>>
dataVars == <<given, back, disposed>>

Walks == {"set", "search", "forRead", "forWrite", "isPresent"}
Idle  == [op |-> "none", at |-> "idle", ptr |-> Nil, searched |-> Nil, new |-> Nil]

TypeOK ==
    /\ {first, last} \subseteq Elems \cup {Nil}
    /\ numElement \in 0..MaxElems
    /\ automatic \in BOOLEAN
    /\ elem \in [Elems -> [state : {"unused", "valid", "freed"}, next : Elems \cup {Nil},
                           data : Data \cup {Nil}, readers : SUBSET Threads,
                           writer : Threads \cup {Nil}]]
    /\ readers \subseteq Threads
    /\ thread \in [Threads -> [op : Walks \cup {"none"},
                               at : {"idle", "walk", "inside", "store", "unlock", "result"},
                               ptr : Elems \cup {Nil}, searched : Data \cup {Nil},
                               new : Data \cup {Nil}]]
    /\ given \subseteq Data /\ back \subseteq given /\ disposed \subseteq given

(* The element that is k steps behind the first one, as the next pointers lead. *)
Nth[k \in 0..MaxElems] ==
    IF k = 0 THEN first
    ELSE LET before == Nth[k - 1] IN IF before = Nil THEN Nil ELSE elem[before].next

(* The elements up to the first NULL pointer. *)
Chain ==
    LET nth == Nth
        length == CHOOSE n \in 0..MaxElems + 1 : /\ \A k \in 0..n - 1 : nth[k] # Nil
                                                 /\ n <= MaxElems => nth[n] = Nil
    IN  [i \in 1..length |-> nth[i - 1]]

contents == LET c == Chain IN [i \in DOMAIN c |-> elem[c[i]].data]

(* MTList_init *)
Init ==
    /\ first = Nil /\ last = Nil
    /\ numElement = 0
    /\ automatic = TRUE
    /\ elem = [e \in Elems |-> [state |-> "unused", next |-> Nil, data |-> Nil,
                                readers |-> {}, writer |-> Nil]]
    /\ readers = {}
    /\ thread = [t \in Threads |-> Idle]
    /\ given = {} /\ back = {} /\ disposed = {}

IsIdle(t) == thread[t].at = "idle"
MayWriteLock(t) == IsIdle(t) /\ readers = {}

-----------------------------------------------------------------------------
(* Calls that hold the list's lock for writing. *)

(* MTListElement_new and MTListElement_init *)
IsNew(e) == elem[e].state = "unused" /\ \A x \in 1..(e - 1) : elem[x].state # "unused"
CreatedAlone(d, n) ==
    [state |-> "valid", next |-> Nil, data |-> d, readers |-> {}, writer |-> Nil]
Created(d, n) == [state |-> "valid", next |-> n, data |-> d, readers |-> {}, writer |-> Nil]

(* MTList_add *)
Add(t, d) == \E e \in Elems :
    /\ MayWriteLock(t)
    /\ IsNew(e)
    /\ d \notin given
    /\ elem' = [x \in Elems |->
                   IF x = e THEN Created(d, Nil)
                   ELSE IF x = last /\ numElement # 0 THEN [elem[x] EXCEPT !.next = e]
                   ELSE elem[x]]
    /\ first' = IF numElement = 0 THEN e ELSE first
    /\ last' = e
    /\ numElement' = numElement + 1
    /\ given' = given \cup {d}
    /\ UNCHANGED <<automatic, readers, thread, back, disposed>>

(* MTList_insert *)
Insert(t, d) == \E e \in Elems :
    /\ MayWriteLock(t)
    /\ IsNew(e)
    /\ d \notin given
    /\ elem' = [elem EXCEPT ![e] = Created(d, first)]
    /\ first' = e
    /\ last' = IF last = Nil THEN e ELSE last
    /\ numElement' = numElement + 1
    /\ given' = given \cup {d}
    /\ UNCHANGED <<automatic, readers, thread, back, disposed>>

(* MTListElement_clear and MTListElement_delete, and what becomes of the data. *)
Deleted(e) == [elem[e] EXCEPT !.state = "freed", !.next = Nil]
Dispose(ds) ==
    /\ disposed' = IF automatic THEN disposed \cup ds ELSE disposed
    /\ back' = IF automatic THEN back ELSE back \cup ds
    /\ UNCHANGED given

(* MTList_remove: the comparison function finds the data d. *)
RemoveLocked(t) == MayWriteLock(t)
LastAfterRemove(e, oldPtr) == IF e = last THEN oldPtr ELSE last
RemoveFound(t, d) ==
    /\ RemoveLocked(t)
    /\ LET c == Chain IN \E i \in DOMAIN c :
       LET e == c[i]
           oldPtr == IF i = 1 THEN Nil ELSE c[i - 1]
       IN
       /\ elem[e].data = d /\ \A j \in 1..(i - 1) : elem[c[j]].data # d
       /\ first' = IF i = 1 THEN elem[e].next ELSE first
       /\ elem' = [x \in Elems |->
                      IF x = e THEN Deleted(e)
                      ELSE IF x = oldPtr
                           THEN [elem[x] EXCEPT !.next = IF e = last THEN Nil ELSE elem[e].next]
                           ELSE elem[x]]
       /\ last' = LastAfterRemove(e, oldPtr)
       /\ numElement' = numElement - 1
       /\ Dispose({d})
       /\ UNCHANGED <<automatic, readers, thread>>

(* MTList_setDeleteMode *)
SetDeleteMode(t) ==
    /\ MayWriteLock(t)
    /\ automatic' = ~automatic
    /\ UNCHANGED <<first, last, numElement, elem, readers, thread, dataVars>>

(* MTList_clear and the MTList_init of a new list in its place. *)
ClearedData == LET c == Chain IN {elem[c[i]].data : i \in DOMAIN c}
Clear(t) ==
    /\ \A u \in Threads : IsIdle(u)
    /\ first # Nil
    /\ elem' = [x \in Elems |-> IF \E i \in DOMAIN Chain : Chain[i] = x
                                THEN [Deleted(x) EXCEPT !.data = Nil] ELSE elem[x]]
    /\ first' = Nil /\ last' = Nil /\ numElement' = 0 /\ automatic' = TRUE
    /\ Dispose(ClearedData)
    /\ thread' = [u \in Threads |-> Idle]
    /\ UNCHANGED readers

-----------------------------------------------------------------------------
(* Walks along the list: MTList_set, MTList_search by way of                   *)
(* MTList_searchListElement, MTList_iterate with each of its two flags, and    *)
(* MTList_isPresent, which takes no element's lock.                            *)

LockForWalk(t, op, d, new) ==
    /\ IsIdle(t)
    /\ op = "set" => t \in Setters /\ new \notin given
    /\ d = Nil <=> op \in {"forRead", "forWrite"}
    /\ readers' = readers \cup {t}
    /\ thread' = [thread EXCEPT ![t] = [op |-> op, at |-> IF first = Nil THEN "unlock" ELSE "walk",
                                        ptr |-> first, searched |-> d,
                                        new |-> IF op = "set" THEN new ELSE Nil]]
    /\ given' = IF op = "set" THEN given \cup {new} ELSE given
    /\ UNCHANGED <<chainVars, elem, back, disposed>>

(* The lock of the element, before the callback. *)
CanEnter(t, e) ==
    /\ elem[e].writer = Nil
    /\ thread[t].op = "forWrite" => elem[e].readers = {}
EnterElement(t) ==
    LET e == thread[t].ptr
    IN /\ thread[t].at = "walk" /\ thread[t].op # "isPresent"
       /\ CanEnter(t, e)
       /\ elem' = IF thread[t].op = "forWrite" THEN [elem EXCEPT ![e].writer = t]
                  ELSE [elem EXCEPT ![e].readers = @ \cup {t}]
       /\ thread' = [thread EXCEPT ![t].at = "inside"]
       /\ UNCHANGED <<chainVars, readers, dataVars>>

(* Where a walk goes from the element it is at: on, or out of the loop. *)
Onwards(t) == LET n == elem[thread[t].ptr].next
              IN [thread EXCEPT ![t].ptr = n, ![t].at = IF n = Nil THEN "unlock" ELSE "walk"]
Stop(t) == [thread EXCEPT ![t].at = "unlock"]
Left(t, e) == [elem EXCEPT ![e].readers = @ \ {t},
                           ![e].writer = IF @ = t THEN Nil ELSE @]

(* The callback has returned: the comparison decides, or func does. *)
LeaveElement(t) ==
    LET e == thread[t].ptr
    IN /\ thread[t].at = "inside"
       /\ IF thread[t].op = "set" /\ elem[e].data = thread[t].searched
          THEN thread' = [thread EXCEPT ![t].at = "store"] /\ UNCHANGED elem
          ELSE /\ elem' = Left(t, e)
               /\ \/ /\ \/ thread[t].op = "search" /\ elem[e].data # thread[t].searched
                        \/ thread[t].op \in {"set", "forRead", "forWrite"}
                     /\ thread' = Onwards(t)
                  \/ /\ \/ thread[t].op = "search" /\ elem[e].data = thread[t].searched
                        \/ thread[t].op \in {"forRead", "forWrite"}
                     /\ thread' = Stop(t)
       /\ UNCHANGED <<chainVars, readers, dataVars>>

(* MTList_set has found its element. *)
ReplacedBy(t) == thread[t].new
Store(t) ==
    LET e == thread[t].ptr
    IN /\ thread[t].at = "store"
       /\ elem' = [Left(t, e) EXCEPT ![e].data = ReplacedBy(t)]
       /\ back' = back \cup {thread[t].searched}
       /\ thread' = Stop(t)
       /\ UNCHANGED <<chainVars, readers, given, disposed>>

(* The loop of MTList_isPresent. *)
Compare(t) ==
    /\ thread[t].at = "walk" /\ thread[t].op = "isPresent"
    /\ thread' = IF elem[thread[t].ptr].data = thread[t].searched THEN Stop(t) ELSE Onwards(t)
    /\ UNCHANGED <<chainVars, elem, readers, dataVars>>

(* The list is unlocked; the new data of a set that found nothing are the      *)
(* caller's again.                                                             *)
NotStored(t) ==
    IF thread[t].op = "set" /\ thread[t].ptr = Nil THEN {thread[t].new} ELSE {}
UnlockAfterWalk(t) ==
    /\ thread[t].at = "unlock"
    /\ readers' = readers \ {t}
    /\ IF thread[t].op \in {"search", "forRead", "forWrite"} /\ thread[t].ptr # Nil
       THEN thread' = [thread EXCEPT ![t].at = "result"]
       ELSE thread' = [thread EXCEPT ![t] = Idle]
    /\ back' = back \cup NotStored(t)
    /\ UNCHANGED <<chainVars, elem, given, disposed>>

(* return ( ptr ? ptr->data : NULL ) *)
ReadResult(t) ==
    /\ thread[t].at = "result"
    /\ thread' = [thread EXCEPT ![t] = Idle]
    /\ UNCHANGED <<chainVars, elem, readers, dataVars>>

(* MTList_getNextElement *)
GetNextElement(t) ==
    LET current == thread[t].ptr
    IN /\ IsIdle(t) /\ numElement # 0
       /\ current # Nil => elem[current].state = "valid" /\ elem[current].writer = Nil
       /\ thread' = [thread EXCEPT ![t].ptr = IF current = Nil THEN first
                                              ELSE elem[current].next]
       /\ UNCHANGED <<chainVars, elem, readers, dataVars>>

Next == \E t \in Threads :
    \/ \E d \in Data : Add(t, d) \/ Insert(t, d) \/ RemoveFound(t, d)
    \/ SetDeleteMode(t)
    \/ Clear(t)
    \/ \E op \in Walks, d \in Data \cup {Nil}, new \in Data : LockForWalk(t, op, d, new)
    \/ EnterElement(t) \/ LeaveElement(t) \/ Store(t) \/ Compare(t)
    \/ UnlockAfterWalk(t) \/ ReadResult(t)
    \/ GetNextElement(t)

Spec == Init /\ [][Next]_vars

-----------------------------------------------------------------------------
(* Whatever calls interleave, the next pointers lead from first through as     *)
(* many valid elements as numElement counts to last, and no valid element is   *)
(* left out of the chain.                                                      *)
ListWellFormed ==
    LET c == Chain
    IN  /\ Len(c) = numElement
        /\ {c[i] : i \in DOMAIN c} = {e \in Elems : elem[e].state = "valid"}
        /\ last = IF c = <<>> THEN Nil ELSE c[Len(c)]

(* A thread on its way along the list under the lock is at an element that     *)
(* nobody has freed and that still is in the chain, and the data its callback  *)
(* works on have not been freed either.                                        *)
WalksOnLiveElements == \A t \in readers : thread[t].ptr # Nil =>
    /\ elem[thread[t].ptr].state = "valid"
    /\ elem[thread[t].ptr].data \notin disposed

(* A callback that iterates for writing is alone with its element: no other    *)
(* callback runs on it and no MTList_set is about to replace its data.         *)
WriteIterationIsAlone == \A t, u \in Threads :
    /\ t # u /\ thread[t].at = "inside" /\ thread[t].op = "forWrite"
    /\ thread[u].at \in {"inside", "store"}
    => thread[t].ptr # thread[u].ptr

(* Each pointer that was handed to the list is in it, was freed by it, or is   *)
(* the caller's again, and it is only one of these, so that nothing leaks and  *)
(* nothing is freed twice.  new data are under way while MTList_set walks.     *)
UnderWay == {thread[t].new : t \in {u \in Threads :
                thread[u].op = "set" /\ (thread[u].at # "unlock" \/ thread[u].ptr = Nil)}}
Held == LET c == Chain IN {elem[c[i]].data : i \in DOMAIN c}
NoDataLost ==
    LET held  == Held
        under == UnderWay
    IN  /\ given = held \cup disposed \cup back \cup under
        /\ \A x, y \in {held, disposed, back, under} : x # y => x \cap y = {}

(* The chain of elements behaves as a sequence that changes by one atomic      *)
(* operation at a time.                                                        *)
Shared == INSTANCE SharedList WITH list <- contents
ImplementsSequence == Shared!Spec

(* The list is the sequence of what was put in, for the threads that walk    *)
(* through it too.                                                           *)
ListIsASequence ==
    /\ [](TypeOK /\ ListWellFormed /\ WalksOnLiveElements /\ WriteIterationIsAlone /\ NoDataLost)
    /\ ImplementsSequence
================================================================================
