-------------------------- MODULE HeaderReferences --------------------------
(***************************************************************************)
(* The header of a serializer keeps its fields in elements of a list and   *)
(* unused elements in a pool.  A header that is read moves the list to the *)
(* pool and takes elements back for what it finds; writing, choosing a     *)
(* format and asking for the options set single fields.  A text is a        *)
(* sequence of characters; of a value only its length is kept, and what    *)
(* fails a requirement stops the program.                                  *)
(*                                                                         *)
(* Source: SerializeReferenceValue.c, Serialize.c, SerializeFormats.c.     *)
(***************************************************************************)
EXTENDS Integers, SequencesExt, FiniteSetsExt

CONSTANTS
    TypeReference, NameReference, Opts,   \* the references of the fields
    Foreign,            \* other references that a header may hold
    ReferenceLengths,            \* of values
    PoolSize,           \* elements in the pool at first
    DefaultRoom,        \* room for a value that is not known yet
    ElementsAtMost,     \* bound on the elements
    Texts,              \* the headers that are read
    CallsAtMost         \* bound on the calls

LongestText == Max({Len(text.pairs) : text \in Texts})
Fields == {TypeReference, NameReference, Opts}
References == Fields \cup Foreign
ReferenceElements == 1..ElementsAtMost
NullReference == 0
Unused == [reference |-> <<>>, value |-> 0, room |-> 0, referenceRoom |-> 0,
           valueLen |-> 0, referenceLen |-> 0, next |-> NullReference]

ASSUME HeaderAssumption ==
    /\ \A r, s \in Fields : IsPrefix(r, s) => r = s
    /\ ReferenceLengths \subseteq Nat \ {0} /\ DefaultRoom \in Nat /\ PoolSize < ElementsAtMost
    /\ Cardinality(Fields) <= PoolSize
    /\ \A text \in Texts : \A i \in 1..Len(text.pairs) :
           text.pairs[i][1] \in References /\ text.pairs[i][2] \in ReferenceLengths

VARIABLES
    header,     \* the elements, the heads of list and pool, and how it ended
    read,       \* history: the values that the fields in the list should have
    proper,     \* history: every header so far was as headers should be
    headerCalls       \* history: how many calls there were

headerVars == <<header, read, proper, headerCalls>>

-----------------------------------------------------------------------------
(* Lists of elements *)

Chain(h, head) ==
    LET walk[k \in 0..ElementsAtMost, e \in ReferenceElements \cup {NullReference}] ==
            IF e = NullReference \/ k = 0 THEN <<>> ELSE <<e>> \o walk[k - 1, h.elem[e].next]
    IN walk[ElementsAtMost, head]

Owned(h) == Range(Chain(h, h.list)) \cup Range(Chain(h, h.pool))
FreeElements(h) == {e \in ReferenceElements : h.elem[e] = Unused}

Halted(h) == [h EXCEPT !.ended = "stops"]

SerializeReferenceValue_init(h, e, reference, value) ==
    LET room == IF value = NullReference THEN DefaultRoom ELSE value
    IN [h EXCEPT !.elem[e] =
           [reference |-> reference, referenceRoom |-> Len(reference), referenceLen |-> Len(reference),
            value |-> value, room |-> room, valueLen |-> room, next |-> NullReference]]

(* The lengths decide whether there is room enough: they forget room that was *)
(* larger once.                                                               *)
SerializeReferenceValue_update(h, e, reference, value) ==
    [h EXCEPT !.elem[e] = [@ EXCEPT
        !.referenceRoom = IF h.elem[e].referenceLen < Len(reference) THEN Len(reference) ELSE @,
        !.reference = reference, !.referenceLen = Len(reference),
        !.room = IF h.elem[e].valueLen < value THEN value ELSE @,
        !.value = value, !.valueLen = value]]

(* The first element whose reference begins with the one that is sought. *)
SerializeReferenceValue_findReferenceValue(h, reference) ==
    LET chain == Chain(h, h.list)
        i == SelectInSeq(chain, LAMBDA e : IsPrefix(reference, h.elem[e].reference))
    IN IF i = 0 THEN NullReference ELSE chain[i]

(* An element that is the last of the list already closes a circle: from then *)
(* on no search for what is not there returns.                                *)
SerializeReferenceValue_push(h, e) ==
    CASE h.elem[e].next # NullReference -> Halted(h)
      [] e \in Range(Chain(h, h.list)) -> [h EXCEPT !.elem[e].next = h.list, !.list = e, !.ended = "circle"]
      [] OTHER -> [h EXCEPT !.elem[e].next = h.list, !.list = e]

SerializeReferenceValue_pop(h) == [h EXCEPT !.pool = h.elem[h.pool].next, !.elem[h.pool].next = NullReference]

(* The list behind the pool, and no list. *)
SerializeReferenceValue_append(h) ==
    LET chain == Chain(h, h.pool)
    IN IF chain = <<>> THEN [h EXCEPT !.pool = h.list, !.list = NullReference]
       ELSE [h EXCEPT !.elem[Last(chain)].next = h.list, !.list = NullReference]

\* Mutant: the last element of a list is not freed.
DestroyButLast(h, head) ==
    LET chain == Chain(h, head)
    IN [h EXCEPT !.elem = [e \in ReferenceElements |-> IF e \in Range(Front(chain)) THEN Unused ELSE @[e]]]

SerializeReferenceValue_destroyList(h, head) ==
    [h EXCEPT !.elem = [e \in ReferenceElements |-> IF e \in Range(Chain(h, head)) THEN Unused ELSE @[e]]]

(* Looking for a value requires a list. *)
SerializeReferenceValue_findValue(h) == IF h.list = NullReference THEN Halted(h) ELSE h

(* What is told of a field: none is an error for the caller to see, and the    *)
(* options are looked for under the name.                                      *)
Told(h, field) ==
    LET e == SerializeReferenceValue_findReferenceValue(h, field)
    IN IF e = NullReference THEN NullReference ELSE h.elem[e].value

Serialize_getHeaderType(h) == Told(h, TypeReference)
Serialize_getHeaderName(h) == Told(h, NameReference)
Serialize_getHeaderOpts(h) == Told(h, NameReference)

-----------------------------------------------------------------------------
(* Setting fields *)

(* One field of setInfo: the element of the list, or one from the pool. *)
SetField(h, field) ==
    LET e == SerializeReferenceValue_findReferenceValue(h, field[1]) IN
    CASE h.ended # "no" -> h
      [] e # NullReference -> SerializeReferenceValue_update(h, e, field[1], field[2])
      [] e = NullReference /\ h.pool = NullReference -> Halted(h)
      [] OTHER -> SerializeReferenceValue_update(
                      SerializeReferenceValue_push(SerializeReferenceValue_pop(h), h.pool),
                      h.pool, field[1], field[2])

SetFields(h, fields) == FoldLeft(SetField, h, fields)

(* One pair of a header: what is found is pushed once more, which only works *)
(* when nothing is found.                                                    *)
TakePair(h, pair) ==
    LET found == SerializeReferenceValue_findReferenceValue(h, pair[1])
        e == CASE found # NullReference -> found
               [] found = NullReference /\ h.pool # NullReference -> h.pool
               [] OTHER -> Min(FreeElements(h))
        ready == CASE found # NullReference -> h
                   [] found = NullReference /\ h.pool # NullReference -> SerializeReferenceValue_pop(h)
                   [] OTHER -> SerializeReferenceValue_init(h, e, pair[1], pair[2])
    IN IF h.ended # "no" THEN h
       ELSE SerializeReferenceValue_push(SerializeReferenceValue_update(ready, e, pair[1], pair[2]), e)

SerializeReferenceValue_getRVP(h, text) ==
    LET taken == FoldLeft(TakePair, h, text.pairs)
    IN IF text.emptyQuotes THEN Halted(taken) ELSE taken

-----------------------------------------------------------------------------
(* A header is as it should be: no reference begins another, or is begun by a  *)
(* field; no value is empty, and there is at least one pair.                   *)
IsProper(text) ==
    /\ ~ text.emptyQuotes /\ text.pairs # <<>> /\ Len(text.pairs) <= PoolSize
    /\ \A i, j \in 1..Len(text.pairs) : IsPrefix(text.pairs[i][1], text.pairs[j][1]) => i = j
    /\ \A f \in Fields, i \in 1..Len(text.pairs) :
           IsPrefix(f, text.pairs[i][1]) => f = text.pairs[i][1]

Created ==
    LET empty(h, e) == SerializeReferenceValue_init(h, e, <<>>, NullReference)
        bare == [elem |-> [e \in ReferenceElements |-> Unused], list |-> 1, pool |-> 2, ended |-> "no"]
        all == FoldLeft(empty, bare, [i \in 1..PoolSize + 1 |-> i])
    IN [all EXCEPT !.elem = [e \in ReferenceElements |->
           IF e \in 2..PoolSize THEN [@[e] EXCEPT !.next = e + 1] ELSE @[e]]]

Nothing == [r \in References |-> NullReference]
After(fields) == FoldLeft(LAMBDA f, field : [f EXCEPT ![field[1]] = field[2]], read, fields)

HeaderInit == header = Created /\ read = Nothing /\ proper = TRUE /\ headerCalls = 0

(* The first beginType of an object that is read, version 2.0. A list that is *)
(* still empty then fails a requirement.                                      *)
ReadV20(text) ==
    LET h == SerializeReferenceValue_getRVP(SerializeReferenceValue_append(header), text) IN
    /\ Cardinality(FreeElements(header)) >= LongestText
    /\ header' = SerializeReferenceValue_findValue(h)
    /\ read' = [r \in References |->
           LET i == SelectLastInSeq(text.pairs, LAMBDA pair : pair[1] = r)
           IN IF i = 0 THEN NullReference ELSE text.pairs[i][2]]
    /\ proper' = (proper /\ IsProper(text))

(* The same for version 1.0: the fields are set only when the type is the     *)
(* expected one, and a list that stays empty fails a requirement.             *)
ReadV10(expected, fields) ==
    LET h == SerializeReferenceValue_append(header) IN
    /\ header' = IF expected THEN SetFields(h, fields) ELSE SerializeReferenceValue_findValue(h)
    /\ read' = IF expected THEN [r \in References |-> IF r \in Fields THEN fields[1][2] ELSE NullReference] ELSE Nothing
    /\ proper' = (proper /\ expected)

(* setInfo of an object that is written, without options, and of a format that *)
(* is chosen, with them; the options are set by the format as well.            *)
SetInfo(fields) ==
    /\ header' = SetFields(header, fields)
    /\ read' = After(fields)
    /\ UNCHANGED proper

(* The options: an element is made when there is none. *)
Serialize_getHeaderOptsPtr ==
    LET e == Min(FreeElements(header)) IN
    /\ FreeElements(header) # {}
    /\ SerializeReferenceValue_findReferenceValue(header, Opts) = NullReference
    /\ header' = SerializeReferenceValue_push(SerializeReferenceValue_init(header, e, Opts, NullReference), e)
    /\ UNCHANGED <<read, proper>>

SerializeHeader_destroy ==
    LET h == SerializeReferenceValue_destroyList(header, header.list)
    IN /\ header' = [SerializeReferenceValue_destroyList(h, header.pool) EXCEPT
                        !.list = NullReference, !.pool = NullReference, !.ended = "cleared"]
       /\ read' = Nothing
       /\ UNCHANGED proper

HeaderNext ==
    /\ header.ended = "no" /\ headerCalls < CallsAtMost
    /\ headerCalls' = headerCalls + 1
    /\ \/ \E text \in Texts : ReadV20(text)
       \/ \E expected \in BOOLEAN, n \in ReferenceLengths : ReadV10(expected, <<<<TypeReference, n>>, <<NameReference, n>>, <<Opts, n>>>>)
       \/ \E n \in ReferenceLengths : SetInfo(<<<<TypeReference, n>>, <<NameReference, n>>>>)
       \/ \E n \in ReferenceLengths : SetInfo(<<<<Opts, n>>>>)
       \/ Serialize_getHeaderOptsPtr
       \/ SerializeHeader_destroy

HeaderSpec == HeaderInit /\ [][HeaderNext]_headerVars

-----------------------------------------------------------------------------
(* No reference or value is longer than the room its element has for it.      *)
FitsItsRoom ==
    \A e \in ReferenceElements : /\ Len(header.elem[e].reference) <= header.elem[e].referenceRoom
                        /\ header.elem[e].value <= header.elem[e].room

(* As long as headers are proper, each element that was made is in the list    *)
(* or in the pool and in one of them only, and both come to an end: none is    *)
(* lost, and clearing frees each once (append, push, pop, destroyList).        *)
EachInOneList ==
    proper =>
        /\ header.ended \in {"no", "cleared"}
        /\ Range(Chain(header, header.list)) \cap Range(Chain(header, header.pool)) = {}
        /\ IsInjective(Chain(header, header.list)) /\ IsInjective(Chain(header, header.pool))
        /\ Owned(header) = ReferenceElements \ FreeElements(header)

(* As long as headers are proper, each field has the value that was read or    *)
(* set last, those of earlier headers are gone, and who asks for the type or   *)
(* the name is told the last one, or that there is none (findReferenceValue,   *)
(* getRVP, setInfo, getHeaderType, getHeaderName).                             *)
LastValueIsFound ==
    proper =>
        /\ \A r \in References :
             LET e == SerializeReferenceValue_findReferenceValue(header, r)
             IN IF e # NullReference /\ header.elem[e].reference = r
                THEN header.elem[e].value = read[r] ELSE read[r] = NullReference
        /\ Serialize_getHeaderType(header) = read[TypeReference]
        /\ read[NameReference] = Serialize_getHeaderName(header)
        /\ Serialize_getHeaderOpts(header) = Serialize_getHeaderName(header)

(* The fields of a header stay in their room and in one list, and the value  *)
(* set last is the one that is found.                                        *)
FieldsAreKept ==
    /\ FitsItsRoom
    /\ EachInOneList
    /\ LastValueIsFound
=============================================================================
