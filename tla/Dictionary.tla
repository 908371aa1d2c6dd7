------------------------------- MODULE Dictionary -------------------------------
(***************************************************************************)
(* What src/HashTable.h and src/HashTableIterator.h promise: a collection   *)
(* of entries that are found by their key, and a walk that meets every      *)
(* entry once.  Buckets, chains, hash values and the growing of the table   *)
(* do not show.  With several entries under one key, any of them answers.   *)
(***************************************************************************)
CONSTANTS Null

VARIABLES
    open,       \* whether the table exists
    entries,    \* the entries: an identity, a key and a value
    unseen,     \* the identities that the walk has still to meet
    current,    \* the identity that the walk is at
    result      \* the key that the last call was about, and what it returned

Answers(k, v) == result' = [key |-> k, value |-> v]
Silent == Answers(Null, Null)
Ids(S) == {e.id : e \in S}
With(k) == {e \in entries : e.key = k}
Restart(S) == unseen' = Ids(S) /\ current' = Null

Empty == open = FALSE /\ entries = {} /\ unseen = {} /\ current = Null /\ result = [key |-> Null, value |-> Null]

(* The table is initialised or cleared. *)
Reset == open' = ~open /\ entries' = {} /\ Restart({}) /\ Silent

Add ==
    \E e \in entries' :
        /\ e.id \notin Ids(entries)
        /\ entries' = entries \cup {e}
        /\ Restart(entries')
        /\ Answers(e.key, TRUE)

AddFails(k) == UNCHANGED entries /\ Restart(entries) /\ Answers(k, FALSE)

(* The walk is given up, or the load factor is set. *)
Renew == Silent /\ UNCHANGED <<entries, unseen, current>>

(* A look does not disturb the walk. *)
Find(k) ==
    /\ IF With(k) = {} THEN Answers(k, Null) ELSE \E e \in With(k) : Answers(k, e.value)
    /\ UNCHANGED <<entries, unseen, current>>

TakeOut(k, destroys) ==
    IF With(k) = {}
    THEN UNCHANGED entries /\ Restart(entries) /\ Answers(k, Null)
    ELSE \E e \in With(k) :
            /\ entries' = entries \ {e}
            /\ Restart(entries')
            /\ Answers(k, IF destroys THEN Null ELSE e.value)

Replace(k, v) ==
    /\ IF With(k) = {} THEN UNCHANGED entries
       ELSE \E e \in With(k) : entries' = (entries \ {e}) \cup {[e EXCEPT !.value = v]}
    /\ Answers(k, With(k) # {})
    /\ UNCHANGED <<unseen, current>>

(* The walk goes to some entry of S, or ends when S is empty. *)
WalkTo(S) ==
    IF S = {} THEN current' = Null /\ unseen' = {}
              ELSE \E i \in S : current' = i /\ unseen' = S \ {i}

Begin == WalkTo(Ids(entries)) /\ Silent /\ UNCHANGED entries
Step == WalkTo(unseen) /\ Answers(Null, current' # Null) /\ UNCHANGED entries
RemoveCurrent ==
    /\ current # Null
    /\ entries' = {e \in entries : e.id # current}
    /\ WalkTo(unseen)
    /\ Silent

(* A call about key k, and the calls about none. *)
About(k, Values) ==
    \/ Add \/ AddFails(k) \/ Find(k)
    \/ \E d \in BOOLEAN : TakeOut(k, d)
    \/ \E v \in Values : Replace(k, v)

Following(Values) ==
    \/ Reset
    \/ /\ open /\ UNCHANGED open
       /\ \/ result'.key = Null /\ (Renew \/ Begin \/ Step \/ RemoveCurrent)
          \/ result'.key # Null /\ About(result'.key, Values)
================================================================================
