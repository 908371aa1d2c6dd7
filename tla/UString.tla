------------------------------ MODULE UString ------------------------------
(***************************************************************************)
(* The functions of UString, on strings as sequences of characters, one    *)
(* call at a time.  Positions count from 0 as they do in the code; the     *)
(* character NUL stands behind every string.                               *)
(*                                                                         *)
(* Source: UString.c.                                                      *)
(***************************************************************************)
EXTENDS Integers, FiniteSets, SequencesExt, FiniteSetsExt

CONSTANTS
    Chars,       \* characters; Blank is one of them
    Blank,       \* what isspace() is true of
    Replacements,\* character -> the string that replaces it
    TextLength,  \* bound: length of a string
    WordLength   \* bound: length of what is looked for in it

ASSUME UStringAssumption ==
    /\ Blank \in Chars /\ TextLength \in Nat /\ WordLength \in Nat
    /\ DOMAIN Replacements \subseteq Chars

VARIABLE ucall   \* the call: what it does, its string, its other string and a number

Strings(n) == UNION {[1..k -> Chars] : k \in 0..n}
NUL == "NUL"
At(s, i) == IF i \in 0..Len(s) - 1 THEN s[i + 1] ELSE NUL
Part(s, from, to) == SubSeq(s, from + 1, Min({to, Len(s)}))  \* characters from..to-1
Cut(s, n) == SubSeq(s, 1, Min({n, Len(s)}))

-----------------------------------------------------------------------------
(* Splitting and replacing.                                                *)

\* The pieces between the tokens, cut to the size of a list's element, as many
\* as the list holds; nothing follows a token at the end.
UString_explode(s, listSize, elementSize, token) ==
    LET pieces[pos \in -1..Len(s), n \in 0..listSize] ==
          IF pos >= Len(s) \/ n = listSize \/ s = <<>> THEN <<>>
          ELSE LET next == Min({i \in pos + 1..Len(s) : i = Len(s) \/ At(s, i) = token})
               IN  <<Cut(Part(s, pos + 1, next), elementSize - 1)>>
                   \o IF next = Len(s) - 1 THEN <<>> ELSE pieces[next, n + 1]
    IN  pieces[-1, 0]

\* What lies between two replaced characters is copied when the second one is
\* met: no room for it ends the call with false, the value of a success, no room
\* for the replacement or for the rest with 1.
UString_replaceChrArrayWithStrArray(size, s) ==
    LET step[i \in 0..Len(s)] ==
          IF i = 0 THEN [ret |-> "go", dest |-> <<>>, prev |-> 0]
          ELSE LET st == step[i - 1]
                   kept == Part(s, st.prev, i - 1)
                   with == Replacements[At(s, i - 1)]
               IN  IF st.ret # "go" \/ At(s, i - 1) \notin DOMAIN Replacements THEN st
                   ELSE IF Len(st.dest \o kept) >= size
                        THEN [st EXCEPT !.ret = "false"]
                   ELSE IF Len(st.dest \o kept \o with) >= size
                        THEN [st EXCEPT !.ret = "1", !.dest = @ \o kept]
                   ELSE [ret |-> "go", prev |-> i, dest |-> st.dest \o kept \o with]
        last == step[Len(s)]
        rest == Part(s, last.prev, Len(s))
    IN  IF last.ret # "go" THEN [ret |-> IF last.ret = "1" THEN 1 ELSE 0, dest |-> last.dest]
        ELSE IF rest # <<>> /\ Len(last.dest \o rest) >= size
        THEN [ret |-> 1, dest |-> last.dest]
        ELSE [ret |-> 0, dest |-> last.dest \o rest]

\* UString_replaceChrWithStr is the same with one character.

-----------------------------------------------------------------------------
(* Searching.                                                              *)

UString_startsWith(s, p) ==
    LET index == Min({i \in 0..Len(s) : At(s, i) # At(p, i) \/ At(s, i) = NUL})
    IN  IF At(p, index) # NUL THEN 1 ELSE 0

UString_endsWith(s, p) ==
    LET from == Len(s) - Len(p)
        index == Min({i \in from..Len(s) : At(s, i) # At(p, i - from) \/ At(s, i) = NUL})
    IN  IF from < 0 \/ At(p, index - from) # NUL THEN 1 ELSE 0

UString_getFirstPosChr(s, c) == Min({i \in 0..Len(s) - 1 : At(s, i) = c} \cup {Len(s)})

\* The character at position 0 is not looked at.
UString_getLastPosChr(s, c) == Max({i \in 1..Len(s) : At(s, i) = c} \cup {-1})

\* Outside of the string a search begins at its start.
From(s, start) == IF start < 0 \/ start > Len(s) THEN 0 ELSE start

\* Nothing found is the length of the string, found at the last character -1.
UString_findNextOccurrenceChr(s, c, start) ==
    LET result == Min({i \in From(s, start)..Len(s) : i = Len(s) \/ At(s, i) = c})
    IN  IF result = Len(s) - 1 THEN -1 ELSE result

UString_findPreviousOccurrenceChr(s, c, start) ==
    LET from == IF start < 0 \/ start > Len(s) THEN Len(s) ELSE start
    IN  Max({i \in 0..from : At(s, i) = c} \cup {-1})

\* Mutant: a character that does not match leaves the count as it is.
MatchedSoFar(p, count, c) ==
    IF c = At(p, 0) THEN 1
    ELSE IF count > 0 /\ c = At(p, count) THEN count + 1 ELSE count

\* How many characters of p are matched after the character c.  One that is the
\* first of p begins a new match, and a match is not looked at in that step.
Matched(p, count, c) ==
    IF c = At(p, 0) THEN 1
    ELSE IF count > 0 /\ c = At(p, count) THEN count + 1 ELSE 0
Complete(p, count, c) == c # At(p, 0) /\ Matched(p, count, c) = Len(p)

UString_findNextOccurrence(s, p, start) ==
    LET scan[i \in 0..Len(s), count \in 0..Len(s)] ==
          IF i = Len(s) THEN -1
          ELSE IF Complete(p, count, At(s, i)) THEN i - Len(p) + 1
          ELSE scan[i + 1, Matched(p, count, At(s, i))]
    IN  scan[From(s, start), 0]

UString_getNumberOccurrences(s, p) ==
    LET scan[i \in 0..Len(s), count \in 0..Len(s)] ==
          IF i = Len(s) THEN 0
          ELSE IF Complete(p, count, At(s, i)) THEN 1 + scan[i + 1, 0]
          ELSE scan[i + 1, Matched(p, count, At(s, i))]
    IN  scan[0, 0]

UString_getNumberOccurrencesChr(s, c) ==
    LET upTo[i \in 0..Len(s)] ==
          IF i = 0 THEN 0 ELSE upTo[i - 1] + (IF At(s, i - 1) = c THEN 1 ELSE 0)
    IN  upTo[Len(s)]

-----------------------------------------------------------------------------
(* Trimming and appending.                                                 *)

UString_trimLeft(s) ==
    Part(s, Min({i \in 0..Len(s) : At(s, i) # Blank}), Len(s))

UString_trimRight(s) ==
    Cut(s, 1 + Max({i \in 0..Len(s) - 1 : At(s, i) # Blank} \cup {-1}))

UString_trim(s) == UString_trimRight(UString_trimLeft(s))

UString_append(dest, size, s) ==
    dest \o Cut(s, IF Len(s) < size - Len(dest) THEN Len(s) ELSE size - Len(dest) - 1)

UString_appendChr(dest, c, size) == IF size >= Len(dest) + 2 THEN Append(dest, c) ELSE dest

-----------------------------------------------------------------------------
(* One call after the other is made.                                       *)

NoUCall == [op |-> "none", s |-> <<>>, t |-> <<>>, n |-> 0]

UStringInit == ucall = NoUCall
UStringNext ==
    /\ ucall = NoUCall
    /\ \E s \in Strings(TextLength) :
         \/ \E n \in 1..TextLength + 2 :
              \/ ucall' = [op |-> "replace", s |-> s, t |-> <<>>, n |-> n] /\ Len(s) < n
              \/ \E c \in Chars : ucall' = [op |-> "explode", s |-> s, t |-> <<c>>, n |-> n]
              \/ \E p \in Strings(WordLength) :
                   Len(s) < n /\ ucall' = [op |-> "append", s |-> s, t |-> p, n |-> n]
         \/ \E p \in Strings(WordLength) \ {<<>>}, n \in -1..TextLength + 1 :
              ucall' = [op |-> "search", s |-> s, t |-> p, n |-> n]
         \/ ucall' = [op |-> "trim", s |-> s, t |-> <<>>, n |-> 0]

-----------------------------------------------------------------------------
(* Properties.                                                             *)

Is(op) == ucall.op = op
Joined(pieces, token) ==
    LET upTo[i \in 0..Len(pieces)] ==
          IF i = 0 THEN <<>>
          ELSE upTo[i - 1] \o (IF i = 1 THEN <<>> ELSE <<token>>) \o pieces[i]
    IN  upTo[Len(pieces)]
Flat(s) == FlattenSeq([i \in 1..Len(s) |->
                         IF s[i] \in DOMAIN Replacements THEN Replacements[s[i]] ELSE <<s[i]>>])
Occurrences(s, p) == {i \in 0..Len(s) : Part(s, i, i + Len(p)) = p /\ i + Len(p) <= Len(s)}

\* What explode() takes apart and the list has room for joins to the string
\* again, but for a token at its end; a list that is too short holds its start.
ExplodeRejoins ==
    Is("explode") =>
        LET token == ucall.t[1]
            joined == Joined(UString_explode(ucall.s, ucall.n, TextLength + 1, token), token)
        IN  /\ IsPrefix(joined, ucall.s)
            /\ ucall.n > TextLength => joined = ucall.s \/ Append(joined, token) = ucall.s
            /\ ucall.n = 1 => ~Contains(joined, token)

\* A replacement that has room is complete, and one that reports a lack of room
\* has written a first part of it.
ReplaceIsComplete ==
    Is("replace") =>
        LET result == UString_replaceChrArrayWithStrArray(ucall.n, ucall.s)
        IN  /\ IsPrefix(result.dest, Flat(ucall.s))
            /\ ucall.n > Len(Flat(ucall.s)) => result = [ret |-> 0, dest |-> Flat(ucall.s)]
            /\ result.ret = 1 => ucall.n <= Len(Flat(ucall.s))

\* A search forward finds nothing that is not there, at or after its start, and
\* counts no occurrence twice.
SearchIsSound ==
    Is("search") =>
        LET found == UString_findNextOccurrence(ucall.s, ucall.t, ucall.n)
        IN  /\ found # -1 => found \in Occurrences(ucall.s, ucall.t)
                            /\ found >= From(ucall.s, ucall.n)
            /\ UString_getNumberOccurrences(ucall.s, ucall.t)
                 <= Cardinality(Occurrences(ucall.s, ucall.t))

\* The searches for a character agree on where it is and how often; the one for
\* the next place takes the end of the string for a place, and misses the last
\* character, and the one for the last place misses the first.
CharSearchesAgree ==
    Is("search") =>
        LET c == ucall.t[1]
            places == Occurrences(ucall.s, <<c>>)
            next == UString_findNextOccurrenceChr(ucall.s, c, ucall.n)
            before == UString_findPreviousOccurrenceChr(ucall.s, c, ucall.n)
        IN  /\ UString_getNumberOccurrencesChr(ucall.s, c) = Cardinality(places)
            /\ places # {} => UString_getFirstPosChr(ucall.s, c) = Min(places)
            /\ UString_getLastPosChr(ucall.s, c) = Max((places \ {0}) \cup {-1})
            /\ next \in places \cup {-1, Len(ucall.s)} /\ before \in places \cup {-1}
            /\ next \in places => \A i \in places : i >= From(ucall.s, ucall.n) => next <= i

\* The tests for the ends agree with the occurrences.
EndsAgree ==
    Is("search") =>
        /\ UString_startsWith(ucall.s, ucall.t) = 0 <=> 0 \in Occurrences(ucall.s, ucall.t)
        /\ UString_endsWith(ucall.s, ucall.t) = 0
             <=> Len(ucall.s) - Len(ucall.t) \in Occurrences(ucall.s, ucall.t)

\* Trimming takes all blanks off both ends and nothing else.
TrimIsTidy ==
    Is("trim") =>
        LET t == UString_trim(ucall.s)
        IN  /\ t # <<>> => t[1] # Blank /\ Last(t) # Blank
            /\ \E i \in 0..Len(ucall.s) :
                 /\ Part(ucall.s, i, i + Len(t)) = t
                 /\ \A k \in 1..Len(ucall.s) : k <= i \/ k > i + Len(t) => ucall.s[k] = Blank

\* Appending to a string of a buffer never fills the place of the NUL character
\* and leaves characters out only when there is no place for them.
AppendFits ==
    Is("append") =>
        LET result == UString_append(ucall.s, ucall.n, ucall.t)
        IN  /\ Len(result) < ucall.n /\ IsPrefix(result, ucall.s \o ucall.t)
            /\ result = ucall.s \o ucall.t \/ Len(result) = ucall.n - 1
            /\ Len(ucall.t) = 1 => UString_appendChr(ucall.s, ucall.t[1], ucall.n) = result

(* The operations on strings do what their names say to every short string.  *)
StringsAreWhole ==
    /\ ExplodeRejoins
    /\ ReplaceIsComplete
    /\ SearchIsSound
    /\ CharSearchesAgree
    /\ EndsAgree
    /\ TrimIsTidy
    /\ AppendFits
=============================================================================
