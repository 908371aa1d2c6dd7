-------------------------------- MODULE ArrayList --------------------------------
(***************************************************************************)
(* The array list of src/ArrayList.c, a stack of pointers that is also used *)
(* to store items for recycling.  Every call holds the mutex from its first *)
(* to its last access, so each is one step, whichever thread makes it.      *)
(*                                                                          *)
(* The buffer is a sequence of bytes, because ArrayList_remove moves bytes  *)
(* where it should move items: an item occupies PtrSize of them.            *)
(***************************************************************************)
EXTENDS Integers, Sequences, FiniteSets

CONSTANTS
    Items,
    PtrSize,        \* sizeof( void * )
    FirstSize,      \* 50, the items that the first buffer holds
    MaxItems        \* bound: nothing is pushed onto so many items

ASSUME ArrayListAssumption ==
    /\ PtrSize \in Nat \ {0, 1} /\ FirstSize \in Nat \ {0} /\ MaxItems \in Nat

VARIABLES
    list,       \* the struct ArrayList
    returned    \* what the last call returned: a pointer, byte by byte

listVars == <<list, returned>>

Bytes(item) == [b \in 1..PtrSize |-> <<item, b>>]
NullPtr == Bytes("null")
Unknown == <<"unknown", 0>>     \* a byte beyond the buffer

(* ArrayList_init *)
NewList == [free |-> 0, count |-> 0, buffer |-> <<>>]
ListInit == list = NewList /\ returned = NullPtr

(* The pointer at index i of a buffer. *)
At(buf, i) == SubSeq(buf, i * PtrSize + 1, (i + 1) * PtrSize)
Put(buf, i, item) ==
    [k \in DOMAIN buf |-> IF k \in i * PtrSize + 1..(i + 1) * PtrSize
                          THEN Bytes(item)[k - i * PtrSize] ELSE buf[k]]

(* ArrayList_allocate: a buffer of zeros, with the pointers of the old one.    *)
Zeros(n) == [k \in 1..n * PtrSize |-> NullPtr[((k - 1) % PtrSize) + 1]]
\* Mutant: as many bytes are copied as there are pointers.
AllocateCopyingBytes(l) ==
    LET size == IF l.count = 0 THEN FirstSize ELSE l.count * 2
        zeros == Zeros(size)
    IN [l EXCEPT !.buffer = [k \in DOMAIN zeros |-> IF k <= l.count THEN @[k] ELSE zeros[k]],
                 !.free = size - l.count]
ArrayList_allocate(l) ==
    LET size == IF l.count = 0 THEN FirstSize ELSE l.count * 2
        zeros == Zeros(size)
    IN [l EXCEPT !.buffer = [k \in DOMAIN zeros |-> IF k <= l.count * PtrSize THEN @[k] ELSE zeros[k]],
                 !.free = size - l.count]

ArrayList_push(item) ==
    /\ list.count < MaxItems
    /\ LET l == IF list.free <= 0 THEN ArrayList_allocate(list) ELSE list
       IN list' = [l EXCEPT !.buffer = Put(@, l.count, item), !.count = @ + 1, !.free = @ - 1]
    /\ UNCHANGED returned

ArrayList_pop ==
    /\ list' = IF list.count > 0 THEN [list EXCEPT !.count = @ - 1, !.free = @ + 1] ELSE list
    /\ returned' = IF list.count > 0 THEN At(list.buffer, list.count - 1) ELSE NullPtr

ArrayList_get(i) ==
    /\ returned' = IF i >= 0 /\ i < list.count THEN At(list.buffer, i) ELSE NullPtr
    /\ UNCHANGED list

(* ArrayList_remove.  Any_memmove is given the number of pointers from i on as *)
(* the number of bytes to move; of a full buffer it may read beyond the end.   *)
Moved(buf, i, n) ==
    [k \in DOMAIN buf |->
        IF k \in i * PtrSize + 1..i * PtrSize + n
        THEN IF k + PtrSize \in DOMAIN buf THEN buf[k + PtrSize] ELSE Unknown
        ELSE buf[k]]
IndicesOf(item) == {i \in 0..list.count - 1 : At(list.buffer, i) = Bytes(item)}
ArrayList_remove(item) ==
    /\ list' = IF IndicesOf(item) = {} THEN list
               ELSE LET i == CHOOSE x \in IndicesOf(item) : \A y \in IndicesOf(item) : x <= y
                    IN [list EXCEPT !.buffer = Moved(@, i, list.count - i),
                                    !.count = @ - 1, !.free = @ + 1]
    /\ UNCHANGED returned

ArrayList_reset ==
    list' = [list EXCEPT !.free = @ + list.count, !.count = 0] /\ UNCHANGED returned

(* ArrayList_clear, and ArrayList_init to use the list again. *)
ArrayList_clear == list' = NewList /\ UNCHANGED returned

ListNext ==
    \/ \E item \in Items : ArrayList_push(item) \/ ArrayList_remove(item)
    \/ ArrayList_pop \/ ArrayList_reset \/ ArrayList_clear
    \/ \E i \in -1..MaxItems : ArrayList_get(i)

ListSpec == ListInit /\ [][ListNext]_listVars

--------------------------------------------------------------------------------
(* The free pointers are counted right, so that ArrayList_push never writes    *)
(* outside the buffer however the list grew, shrank and was reset.             *)
RoomIsCounted == Len(list.buffer) = (list.count + list.free) * PtrSize /\ list.free >= 0

(* No call disturbs the pointers below the one it is about: not those that     *)
(* ArrayList_allocate copies, and not those before the one that is removed.    *)
Lowest(n) == SubSeq(list.buffer, 1, n * PtrSize) = SubSeq(list'.buffer, 1, n * PtrSize)
PointersBelowStay ==
    [][\/ list'.count >= list.count /\ Lowest(list.count)
       \/ ArrayList_pop /\ Lowest(list'.count)
       \/ \E item \in Items : IndicesOf(item) # {} /\ ArrayList_remove(item)
             /\ \A i \in IndicesOf(item) : (\A j \in IndicesOf(item) : i <= j) => Lowest(i)
       \/ list'.count = 0]_listVars

(* The room of the list is what it counts, and growing moves no pointer.     *)
PointersAreKept ==
    /\ []RoomIsCounted
    /\ PointersBelowStay
================================================================================
