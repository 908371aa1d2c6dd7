---------------------------- MODULE OpenStrings ----------------------------
(***************************************************************************)
(* The text a channel is opened from: pairs of a reference and a value, as *)
(* in  stream = File mode = 'IOCHANNEL_MODE_R_ONLY | IOCHANNEL_MODE_CLOSE',*)
(* with the modes, permissions and numbers among the values.  A text is a   *)
(* sequence of characters; the name of a mode is one of them.              *)
(*                                                                         *)
(* Source: IOChannelReferenceValue.c and .h, IOChannel_openFromString.     *)
(***************************************************************************)
EXTENDS Integers, SequencesExt, FiniteSetsExt

CONSTANTS
    Letters,        \* characters of references
    Lower,          \* each letter in lower case
    PairValues,     \* values that are written between quotes
    Modes,          \* the flags of each mode's name
    TypedLength, PairsAtMost, ModeLength, NumberLength

Marks == {"=", "'", " "}
Operators == {"|", "&", "^"}
ModeChars == DOMAIN Modes \cup Operators \cup {" ", "r"}
Digits == {"0", "7", "9"}
NumberChars == Digits \cup {"-", "x", "F"}
Types == {"Int", "UInt", "Long", "ULong"}
EveryFlag == UNION Range(Modes) \cup {"other bits"}
UNDEFINED == EveryFlag      \* EOF: all bits are set

ASSUME OpenStringsAssumption ==
    /\ DOMAIN Lower = Letters /\ Range(Lower) \subseteq Letters
    /\ \A v \in PairValues : v # <<>> /\ ~ Contains(v, "'")
    /\ {"CLOSE", "NOTCLOSE"} \subseteq EveryFlag
    /\ \A name \in DOMAIN Modes : Modes[name] # UNDEFINED

VARIABLES
    typed,      \* characters in no order
    pairs,      \* pairs written behind them as the documentation says
    modeText, number

openVars == <<typed, pairs, modeText, number>>

-----------------------------------------------------------------------------
(* Scanning *)

Past(t, p, S) == Min({q \in p..Len(t) + 1 : q = Len(t) + 1 \/ t[q] \notin S})
Skip(t, p) == Past(t, p, {" "})
CharAt(t, p) == IF p <= Len(t) THEN t[p] ELSE "EOF"

NextToken(t, p, S) == SubSeq(t, p, Past(t, p, S) - 1)

NoItem(status) == [status |-> status]
Found(t, p, ref, from, to, at, quoted) ==
    [status |-> "item", reference |-> SubSeq(t, p, ref - 1),
     value |-> SubSeq(t, from, to - 1), quoted |-> quoted, at |-> at]

\* Mutant: a value between quotes ends at the first blank.
ItemToBlank(t, p) ==
    LET ref == Past(t, p, Letters)
        val == Skip(t, Skip(t, ref) + 1)
        end == Past(t, val + 1, (Range(t) \cup Letters) \ {"'", " "})
    IN IF t[p] \notin Letters \/ CharAt(t, Skip(t, ref)) # "=" \/ val > Len(t)
       THEN NoItem("failed")
       ELSE Found(t, p, ref, IF t[val] = "'" THEN val + 1 ELSE val, end,
                  IF CharAt(t, end) = "'" THEN end + 1 ELSE end, t[val] = "'")

(* One pair that begins at p. An empty value between quotes fails a          *)
(* requirement and stops the program.                                        *)
Item(t, p) ==
    LET ref == Past(t, p, Letters)
        val == Skip(t, Skip(t, ref) + 1)
        close == Past(t, val + 1, Range(t) \ {"'"})
        end == Past(t, val, Range(t) \ {" "})
    IN CASE t[p] \notin Letters \/ CharAt(t, Skip(t, ref)) # "=" \/ val > Len(t) -> NoItem("failed")
         [] CharAt(t, val) # "'" -> Found(t, p, ref, val, end, end, FALSE)
         [] close > Len(t) -> NoItem("failed")
         [] close = val + 1 -> NoItem("stops")
         [] OTHER -> Found(t, p, ref, val + 1, close, close + 1, TRUE)

(* All pairs in their order, or how the parsing ended. *)
SpelledPairs(t) ==
    LET from[p \in 1..Len(t) + 1] ==
            LET q == Skip(t, p)
                item == Item(t, q)
            IN CASE q > Len(t) -> [status |-> "done", list |-> <<>>]
                 [] item.status # "item" -> [status |-> item.status, list |-> <<>>]
                 [] OTHER -> [from[item.at] EXCEPT !.list = <<item>> \o @]
    IN from[1]

(* A reference that is spelled the same takes the new value in its place. *)
ListItemSet(list, item) ==
    LET places == {i \in 1..Len(list) : list[i].reference = item.reference}
    IN IF places = {} THEN Append(list, item) ELSE [list EXCEPT ![Min(places)].value = item.value]

(* A text without a pair fails a requirement. *)
Parse(t) ==
    LET all == SpelledPairs(t)
    IN IF all.status = "done" /\ all.list = <<>> THEN [status |-> "stops", list |-> <<>>]
       ELSE [all EXCEPT !.list = FoldLeft(ListItemSet, <<>>, @)]
SameReference(r, s) == Len(r) = Len(s) /\ \A i \in 1..Len(r) : Lower[r[i]] = Lower[s[i]]

None == <<>>
GetString(list, reference) ==
    LET places == {i \in 1..Len(list) : SameReference(reference, list[i].reference)}
    IN IF places = {} THEN None ELSE list[Min(places)].value

-----------------------------------------------------------------------------
(* Modes, permissions and numbers *)

GetAccessFlag(flags, operator, more) ==
    CASE operator = "|" -> flags \cup more
      [] operator = "&" -> flags \cap more
      [] operator = "^" -> (flags \cup more) \ (flags \cap more)

(* Names with operators between them, applied from left to right. *)
Access(t, names) ==
    LET from[p \in 1..Len(t) + 1, flags \in SUBSET EveryFlag, operator \in Operators] ==
            LET q == Skip(t, p)
                name == NextToken(t, q, DOMAIN names \cup {"r"})
                o == Skip(t, q + Len(name))
            IN CASE q > Len(t) -> flags
                 [] CharAt(t, q) \notin DOMAIN names \/ Len(name) # 1 -> UNDEFINED
                 [] o > Len(t) -> GetAccessFlag(flags, operator, names[t[q]])
                 [] CharAt(t, o) \notin Operators \/ Skip(t, o + 1) > Len(t) -> UNDEFINED
                 [] OTHER -> from[o + 1, GetAccessFlag(flags, operator, names[t[q]]), t[o]]
    IN from[1, {}, "|"]

\* The permissions are named by another table and scanned in the same way.
GetAccessMode(t) == Access(t, Modes)
GetAccessPermissions(t) == Access(t, Modes)

(* Whether the text is given to scanf: after a sign no unsigned type is, and *)
(* every character must be a digit of the notation.                          *)
Admitted(t, type) ==
    LET from == IF CharAt(t, 1) = "-" THEN 2 ELSE 1
        hexadecimal == CharAt(t, from) = "0" /\ CharAt(t, from + 1) = "x"
        octal == CharAt(t, from) = "0" /\ ~ hexadecimal
    IN /\ CharAt(t, 1) = "-" => type \in {"Int", "Long"}
       /\ IF hexadecimal THEN \A i \in from + 2..Len(t) : t[i] \in Digits \cup {"F"}
          ELSE \A i \in from..Len(t) : t[i] \in IF octal THEN Digits \ {"9"} ELSE Digits

(* The pattern for scanf: %i finds the notation itself. *)
Pattern(t, type) ==
    CASE type \in {"Int", "Long"} -> "i"
      [] CharAt(t, 1) = "0" /\ CharAt(t, 2) = "x" -> "x"
      [] CharAt(t, 1) = "0" -> "o"
      [] OTHER -> "u"

(* How many characters scanf takes: a sign, a prefix and digits of the base. *)
ScannedText(t, pattern) ==
    LET from == IF CharAt(t, 1) = "-" THEN 2 ELSE 1
        prefix == CharAt(t, from) = "0" /\ CharAt(t, from + 1) = "x"
    IN CASE pattern \in {"i", "x"} /\ prefix -> Past(t, from + 2, Digits \cup {"F"}) - 1
         [] pattern = "x" -> Past(t, from, Digits \cup {"F"}) - 1
         [] pattern = "o" \/ (pattern = "i" /\ CharAt(t, from) = "0") -> Past(t, from, Digits \ {"9"}) - 1
         [] OTHER -> Past(t, from, Digits) - 1

-----------------------------------------------------------------------------
ModeIsValid(flags) == ~ {"CLOSE", "NOTCLOSE"} \subseteq flags

(* What is opened, from the pairs of the text. *)
OpenFromString(list) ==
    LET stream == GetString(list, <<"s">>)
        text == GetString(list, <<"m">>)
        mode == GetAccessMode(text)
    IN CASE stream = None -> [status |-> "refused"]
         [] text = None \/ mode = UNDEFINED -> [status |-> "opens", stream |-> stream, mode |-> UNDEFINED]
         [] ~ ModeIsValid(mode) -> [status |-> "BFLGS"]
         [] OTHER -> [status |-> "opens", stream |-> stream, mode |-> mode]

(* A pair as ADDSET writes it. *)
SpelledOut(pair) == pair.reference \o <<" ", "=", " ", "'">> \o pair.value \o <<"'", " ">>
AddSets(list) == FoldLeft(LAMBDA t, pair : t \o SpelledOut(pair), <<>>, list)

Text == typed \o AddSets(pairs)

-----------------------------------------------------------------------------
OpenInit == typed = <<>> /\ pairs = <<>> /\ modeText = <<>> /\ number = <<>>

TypeText(c) ==
    /\ pairs = <<>> /\ modeText = <<>> /\ number = <<>> /\ Len(typed) < TypedLength
    /\ typed' = Append(typed, c)
    /\ UNCHANGED <<pairs, modeText, number>>

AddSet(reference, value) ==
    /\ modeText = <<>> /\ number = <<>> /\ Len(pairs) < PairsAtMost
    /\ typed # <<>> => Last(typed) = " "
    /\ pairs' = Append(pairs, [reference |-> <<reference>>, value |-> value])
    /\ UNCHANGED <<typed, modeText, number>>

TypeMode(c) ==
    /\ typed = <<>> /\ pairs = <<>> /\ number = <<>> /\ Len(modeText) < ModeLength
    /\ modeText' = Append(modeText, c)
    /\ UNCHANGED <<typed, pairs, number>>

TypeNumber(c) ==
    /\ typed = <<>> /\ pairs = <<>> /\ modeText = <<>> /\ Len(number) < NumberLength
    /\ number' = Append(number, c)
    /\ UNCHANGED <<typed, pairs, modeText>>

OpenNext ==
    \/ \E c \in Letters \cup Marks : TypeText(c)
    \/ \E r \in Letters, v \in PairValues : AddSet(r, v)
    \/ \E c \in ModeChars : TypeMode(c)
    \/ \E c \in NumberChars : TypeNumber(c)

-----------------------------------------------------------------------------
NonBlank(t) == SelectSeq(t, LAMBDA c : c # " ")

(* Every character of an accepted text but the blanks between the parts is    *)
(* in a reference or a value, or one of the marks around them                 *)
(* (parseReferenceValue).                                                     *)
NothingSkipped ==
    LET all == SpelledPairs(Text)
        weight(item) == Len(NonBlank(item.reference \o item.value)) + (IF item.quoted THEN 3 ELSE 1)
    IN all.status = "done" =>
        Len(NonBlank(Text)) = FoldLeft(LAMBDA n, item : n + weight(item), 0, all.list)

(* Pairs written as the documentation says are found, whatever pairs stand    *)
(* before them, with a blank between: each reference has the value that was    *)
(* written last under that spelling (parseReferenceValue, listItemSet).        *)
WrittenIsRead ==
    LET before == SpelledPairs(typed)
        answer == Parse(Text)
        last(r) == SelectLastInSeq(pairs, LAMBDA pair : pair.reference = r)
    IN pairs # <<>> /\ before.status = "done" =>
        /\ answer.status = "done"
        /\ \A pair \in Range(pairs) : \E i \in 1..Len(answer.list) :
             /\ answer.list[i].reference = pair.reference
             /\ answer.list[i].value = pairs[last(pair.reference)].value
        /\ \A i, j \in 1..Len(answer.list) :
             answer.list[i].reference = answer.list[j].reference => i = j

(* When no two references differ in their case only, writing all of them in   *)
(* lower case opens the same (getString).                                     *)
SpellingIsFree ==
    LET list == Parse(Text).list
        lowered == [i \in 1..Len(list) |->
                       [list[i] EXCEPT !.reference = [k \in 1..Len(@) |-> Lower[@[k]]]]]
    IN (\A i, j \in 1..Len(list) : lowered[i].reference = lowered[j].reference => i = j)
        => OpenFromString(list) = OpenFromString(lowered)

(* A channel never opens both to close its handle and not to close it, unless *)
(* its mode is undefined (openFromString).                                    *)
OneWayToClose ==
    LET answer == OpenFromString(Parse(Text).list)
    IN answer.status = "opens" => answer.mode = UNDEFINED \/ Cardinality(answer.mode \cap {"CLOSE", "NOTCLOSE"}) < 2

(* A mode has its value exactly when it is names and operators in turn, and   *)
(* then it is their value from left to right; all else is undefined, and so   *)
(* it is with permissions (getAccessMode, getAccessPermissions).              *)
ModesAlternate ==
    LET t == NonBlank(modeText)
        regular == \A i \in 1..Len(t) : IF i % 2 = 1 THEN t[i] \in DOMAIN Modes ELSE t[i] \in Operators
        flags[n \in 0..Len(t)] ==
            IF n = 0 THEN {}
            ELSE IF n = 1 THEN Modes[t[1]]
            ELSE GetAccessFlag(flags[n - 2], t[n - 1], Modes[t[n]])
        expected == IF regular /\ (t = <<>> \/ Len(t) % 2 = 1) THEN flags[Len(t)] ELSE UNDEFINED
    IN GetAccessMode(modeText) = expected /\ GetAccessPermissions(modeText) = expected

(* A number that passes the checks is taken by scanf to its last character,   *)
(* so none is cut short (stringToNumber).                                     *)
NumberIsWhole ==
    \A type \in Types :
        Admitted(number, type) => ScannedText(number, Pattern(number, type)) = Len(number)

(* A text that a channel is opened from is read in whole, however it is      *)
(* spelled, and closes the channel in one way.                               *)
OpenTextsAreRead ==
    /\ NothingSkipped
    /\ WrittenIsRead
    /\ SpellingIsFree
    /\ OneWayToClose
    /\ ModesAlternate
    /\ NumberIsWhole
=============================================================================
