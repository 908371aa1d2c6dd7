-------------------------------- MODULE HashTable --------------------------------
(***************************************************************************)
(* The hash table of src/HashTable.c and its iterator of                    *)
(* src/HashTableIterator.c: chains of entries in a prime number of buckets, *)
(* which grows to the next prime when the entries exceed the load limit.    *)
(* Neither locks anything, so each call is one step.                        *)
(*                                                                          *)
(* A hash function is any function from the keys to the naturals; keys are  *)
(* compared by identity, as they are when no comparison is given.  A walk   *)
(* with the iterator continues while entries are looked up, changed and     *)
(* removed through the iterator; the caller begins a new one after any      *)
(* other change of the chains.  Bound: the table holds MaxEntries entries.  *)
(***************************************************************************)
EXTENDS Integers, FiniteSets, SequencesExt

CONSTANTS
    Keys, Values, Null,
    Hash,           \* the hash value of each key
    Primes,         \* HashTable_primes
    LoadFactors,    \* the percentages that are set
    MinSizes,       \* the sizes that are asked for
    Ownership,      \* whether there is a destructor for keys, and one for values
    MaxEntries

ASSUME HashTableAssumption ==
    /\ Hash \in [Keys -> Nat]
    /\ Primes # <<>> /\ \A i \in 1..Len(Primes) : Primes[i] \in Nat \ {0}
    /\ LoadFactors \cup MinSizes \subseteq Nat /\ MaxEntries \in Nat \ {0}
    /\ Ownership \subseteq BOOLEAN \X BOOLEAN
    /\ Null \notin Keys \cup 1..MaxEntries      \* it stands for no key and for no entry

VARIABLES
    ht,         \* the struct HashTable
    it,         \* the struct HashTableIterator
    answer,     \* the key that the last call was about, and what it returned
    freed       \* the entries whose keys and values the last call destroyed

tableVars == <<ht, it, answer, freed>>

FirstLoadFactor == 65       \* HASHTABLE_DEFAULT_LOADFACTOR

(* HASHTABLE_INDEXFOR *)
IndexFor(length, h) == h % length
LoadLimit(size, factor) == (size * factor) \div 100

Chained(h) == FlattenSeq([i \in 1..Primes[h.primeIndex] |-> h.chains[i - 1]])
Entries(h) == UNION {Range(h.chains[b]) : b \in DOMAIN h.chains}
IdsOf(chain) == {e.id : e \in Range(chain)}
LiveIds(h) == {e.id : e \in Entries(h)}

NoTable == [valid |-> FALSE, chains |-> <<>>, primeIndex |-> 0, loadFactor |-> 0, loadLimit |-> 0,
            entryCount |-> 0, keyDtor |-> FALSE, valueDtor |-> FALSE]

(* HashTableIterator_init *)
NoWalk == [entry |-> Null, parent |-> Null, index |-> 0, initialized |-> FALSE]
About(k, v) == [key |-> k, value |-> v]
NoAnswer == About(Null, Null)
NothingFreed == [keys |-> {}, values |-> {}]

TableInit == ht = NoTable /\ it = NoWalk /\ answer = NoAnswer /\ freed = NothingFreed

--------------------------------------------------------------------------------
(* HashTable_init chooses the first prime above the size that is asked for. *)
HashTable_init(minSize, keyDtor, valueDtor) ==
    /\ ~ht.valid
    /\ \E i \in 1..Len(Primes) :
          /\ Primes[i] > minSize /\ \A j \in 1..i - 1 : Primes[j] <= minSize
          /\ ht' = [valid |-> TRUE, chains |-> [b \in 0..Primes[i] - 1 |-> <<>>], primeIndex |-> i,
                    loadFactor |-> FirstLoadFactor, loadLimit |-> LoadLimit(Primes[i], FirstLoadFactor),
                    entryCount |-> 0, keyDtor |-> keyDtor, valueDtor |-> valueDtor]
    /\ it' = NoWalk /\ answer' = NoAnswer /\ freed' = NothingFreed

(* Takes effect the next time the table grows. *)
HashTable_setLoadFactor(f) ==
    /\ ht.valid
    /\ ht' = [ht EXCEPT !.loadFactor = f]
    /\ answer' = NoAnswer /\ freed' = NothingFreed /\ UNCHANGED it

(* HashTable_expand: one entry after the other moves to the head of its new chain. *)
PutFirst(chains, size, e) == [chains EXCEPT ![IndexFor(size, e.hash)] = <<e>> \o @]
Rehashed(h, size) ==
    LET all == Chained(h)
        moved[n \in 0..Len(all)] ==
            IF n = 0 THEN [b \in 0..size - 1 |-> <<>>] ELSE PutFirst(moved[n - 1], size, all[n])
    IN  moved[Len(all)]
HashTable_expand(h) ==
    LET size == Primes[h.primeIndex + 1]
    IN [h EXCEPT !.chains = Rehashed(h, size), !.primeIndex = @ + 1,
                 !.loadLimit = LoadLimit(size, h.loadFactor)]

FreeId == CHOOSE i \in 1..MaxEntries : i \notin LiveIds(ht)

(* HashTable_insert.  The table grows when it can, and takes the entry in any  *)
(* case; what grew stays so when there is no memory for the entry.             *)
Grown(h, noTable) ==
    IF h.entryCount + 1 > h.loadLimit /\ h.primeIndex < Len(Primes) /\ ~noTable
    THEN HashTable_expand(h) ELSE h
Linked(h, e) ==
    [h EXCEPT !.entryCount = @ + 1, !.chains = PutFirst(@, Primes[h.primeIndex], e)]
HashTable_insert(k, v, noTable, noEntry) ==
    /\ ht.valid /\ ht.entryCount < MaxEntries
    /\ LET h == Grown(ht, noTable)
       IN ht' = IF noEntry THEN h
                ELSE Linked(h, [id |-> FreeId, key |-> k, value |-> v, hash |-> Hash[k]])
    /\ answer' = About(k, ~noEntry)
    /\ it' = NoWalk /\ freed' = NothingFreed

(* The entry that a key finds first in its chain, and its position. *)
ChainOf(k) == ht.chains[IndexFor(Primes[ht.primeIndex], Hash[k])]
Position(k) == SelectInSeq(ChainOf(k), LAMBDA e : e.hash = Hash[k] /\ e.key = k)

HashTable_search(k) ==
    /\ ht.valid
    /\ answer' = About(k, IF Position(k) = 0 THEN Null ELSE ChainOf(k)[Position(k)].value)
    /\ freed' = NothingFreed /\ UNCHANGED <<ht, it>>

(* HashTable_remove; HashTable_fetch does the same and spares the value. *)
Unlinked(k) ==
    [ht EXCEPT !.entryCount = @ - 1,
               !.chains[IndexFor(Primes[ht.primeIndex], Hash[k])] = RemoveAt(ChainOf(k), Position(k))]
Destroyed(S, values) ==
    [keys |-> IF ht.keyDtor THEN S ELSE {}, values |-> IF ht.valueDtor /\ values THEN S ELSE {}]
HashTable_remove(k, fetch) ==
    /\ ht.valid
    /\ IF Position(k) = 0
       THEN answer' = About(k, Null) /\ freed' = NothingFreed /\ UNCHANGED ht
       ELSE LET e == ChainOf(k)[Position(k)]
            IN /\ ht' = Unlinked(k)
               /\ freed' = Destroyed({e.id}, ~fetch)
               /\ answer' = About(k, IF ht.valueDtor /\ ~fetch THEN Null ELSE e.value)
    /\ it' = NoWalk

(* HashTable_change.  TRUE stands for -1 and FALSE for 0. *)
HashTable_change(k, v) ==
    /\ ht.valid
    /\ ht' = IF Position(k) = 0 THEN ht
             ELSE [ht EXCEPT !.chains[IndexFor(Primes[ht.primeIndex], Hash[k])][Position(k)].value = v]
    /\ answer' = About(k, Position(k) # 0)
    /\ freed' = NothingFreed /\ UNCHANGED it

HashTable_clear ==
    /\ ht.valid
    /\ ht' = NoTable
    /\ freed' = Destroyed(LiveIds(ht), TRUE)
    /\ it' = NoWalk /\ answer' = NoAnswer

--------------------------------------------------------------------------------
(* HashTableIterator_first *)
FirstEntry(h) ==
    LET full == {b \in DOMAIN h.chains : h.chains[b] # <<>>}
        b == CHOOSE x \in full : \A y \in full : x <= y
    IN IF h.entryCount = 0 \/ full = {}
       THEN [entry |-> Null, parent |-> Null, index |-> Primes[h.primeIndex],
             initialized |-> h.entryCount # 0]
       ELSE [entry |-> h.chains[b][1].id, parent |-> Null, index |-> b, initialized |-> TRUE]

PlaceOf(h, w, id) == SelectInSeq(h.chains[w.index], LAMBDA e : e.id = id)
Beyond(h, w) == LET c == h.chains[w.index] IN SubSeq(c, PlaceOf(h, w, w.entry) + 1, Len(c))

(* HashTableIterator_next from an entry that is followed by rest in its chain. *)
Advanced(h, w, rest) ==
    LET later == {b \in DOMAIN h.chains : b > w.index /\ h.chains[b] # <<>>}
        b == CHOOSE x \in later : \A y \in later : x <= y
    IN IF rest # <<>> THEN [w EXCEPT !.parent = w.entry, !.entry = Head(rest).id]
       ELSE IF later = {}
       THEN [w EXCEPT !.parent = Null, !.entry = Null, !.index = Primes[h.primeIndex]]
       ELSE [w EXCEPT !.parent = Null, !.entry = h.chains[b][1].id, !.index = b]

HashTableIterator_first ==
    /\ ht.valid
    /\ it' = FirstEntry(ht)
    /\ answer' = NoAnswer /\ freed' = NothingFreed /\ UNCHANGED ht

HashTableIterator_next ==
    /\ ht.valid
    /\ it' = IF ~it.initialized THEN FirstEntry(ht)
             ELSE IF it.entry = Null THEN it ELSE Advanced(ht, it, Beyond(ht, it))
    /\ answer' = About(Null, it'.entry # Null)
    /\ freed' = NothingFreed /\ UNCHANGED ht

(* HashTableIterator_remove, called at an entry.  The parent is what the       *)
(* iterator took for the predecessor: nothing stands for the head of the chain. *)
WithoutCurrent(h, w) ==
    LET c == h.chains[w.index]
        before == IF w.parent = Null THEN <<>> ELSE SubSeq(c, 1, PlaceOf(h, w, w.parent))
    IN [h EXCEPT !.chains[w.index] = before \o Beyond(h, w), !.entryCount = @ - 1]
\* Mutant: the parent is not corrected, as if the entry before were the head.
ParentForgotten(w, n) == [n EXCEPT !.parent = IF @ = w.entry THEN Null ELSE @]
ParentKept(w, n) == [n EXCEPT !.parent = IF @ = w.entry THEN w.parent ELSE @]
HashTableIterator_remove ==
    /\ ht.valid /\ it.entry # Null
    /\ ht' = WithoutCurrent(ht, it)
    /\ it' = ParentKept(it, Advanced(ht', it, Beyond(ht, it)))
    /\ answer' = NoAnswer /\ freed' = NothingFreed

TableNext ==
    \/ \E n \in MinSizes, o \in Ownership : HashTable_init(n, o[1], o[2])
    \/ \E f \in LoadFactors : HashTable_setLoadFactor(f)
    \/ \E k \in Keys, v \in Values : \E t, e \in BOOLEAN : HashTable_insert(k, v, t, e)
    \/ \E k \in Keys : HashTable_search(k)
    \/ \E k \in Keys : \E fetch \in BOOLEAN : HashTable_remove(k, fetch)
    \/ \E k \in Keys, v \in Values : HashTable_change(k, v)
    \/ HashTable_clear
    \/ HashTableIterator_first \/ HashTableIterator_next \/ HashTableIterator_remove

--------------------------------------------------------------------------------
(* The records are well formed. *)
TableTypeOK ==
    /\ ht.valid => ht.primeIndex \in 1..Len(Primes) /\ DOMAIN ht.chains = 0..Primes[ht.primeIndex] - 1
    /\ ht.entryCount \in 0..MaxEntries /\ {ht.loadLimit, ht.loadFactor} \subseteq Nat
    /\ it.initialized => it.index \in 0..Primes[ht.primeIndex]

(* Every entry is in the bucket that its key leads to, once, however often     *)
(* HashTable_expand moved it; so HashTable_search meets it.                     *)
EntriesAreFindable ==
    ht.valid => /\ \A b \in DOMAIN ht.chains : \A e \in Range(ht.chains[b]) :
                      e.hash = Hash[e.key] /\ b = IndexFor(Primes[ht.primeIndex], e.hash)
                /\ Cardinality(LiveIds(ht)) = Len(Chained(ht))

(* HashTable_count tells the number of entries in the chains, which is also    *)
(* what decides when the table grows and whether an iteration begins.          *)
CountIsRight == ht.valid => ht.entryCount = Len(Chained(ht))

(* The table owns its keys: a call that takes an entry out destroys its key,   *)
(* and no call destroys the key of an entry that stays.  The iterator's        *)
(* removal is the exception: it gives the key back to nobody.                  *)
KeysGoWithTheirEntries ==
    [][/\ freed'.keys \cap LiveIds(ht') = {}
       /\ ht.keyDtor /\ ~HashTableIterator_remove =>
             LiveIds(ht) \ LiveIds(ht') \subseteq freed'.keys]_tableVars

(* Chains, growth and the bookkeeping of the iterator implement a dictionary   *)
(* whose walk meets every entry once.                                          *)
Ahead ==
    IF ~it.initialized THEN LiveIds(ht)
    ELSE IF it.entry = Null THEN {}
    ELSE IdsOf(Beyond(ht, it)) \cup
         UNION {IdsOf(ht.chains[b]) : b \in {x \in DOMAIN ht.chains : x > it.index}}
Contents == {[id |-> e.id, key |-> e.key, value |-> e.value] : e \in Entries(ht)}
D == INSTANCE Dictionary WITH open <- ht.valid, entries <- Contents, unseen <- Ahead,
                              current <- it.entry, result <- answer
ImplementsDictionary ==
    D!Empty /\ [][D!Following(Values)]_<<ht.valid, Contents, Ahead, it.entry, answer>>

(* The hash table is the dictionary of its entries, finds each of them, counts*)
(* them, and destroys what it owns with the entry and not before.            *)
TableIsADictionary ==
    /\ [](TableTypeOK /\ EntriesAreFindable /\ CountIsRight)
    /\ KeysGoWithTheirEntries
    /\ ImplementsDictionary
================================================================================
