--------------------------- MODULE FormattedText ---------------------------
(***************************************************************************)
(* Texts that are written to a channel and read from it: formats with      *)
(* conversions (IOChannel_printf(), IOChannel_scanf()), lines              *)
(* (IOChannel_puts(), IOChannel_gets()) and characters (IOChannel_getc()). *)
(* A text is a sequence of characters, and so is a format.  The quoted     *)
(* conversions %qc, %qs and %*qs are in SerializeValues.                   *)
(***************************************************************************)
EXTENDS Integers, Sequences, SequencesExt

CONSTANTS TextFormats,     \* that are printed and scanned
          TextChars,       \* of the texts that are scanned
          Arguments,       \* the values for a conversion, given by its letters
          TextAtMost,      \* length of the other texts that are scanned
          Behind,          \* what may follow a printed text
          Lines,           \* of IOChannel_puts()
          LineRoom,        \* sizes given to IOChannel_gets()
          ReadsAtMost      \* calls that read, in one behaviour

VARIABLES whole,           \* all that is in the channel
          reader,          \* [in, back, found, rd, error]: what is not read, what was put back,
                           \* whether the end was met, bytes read and not put back,
                           \* whether an error is set
          fcall,           \* the last call and its result
          pieces           \* of lines: what IOChannel_gets() returned

formatVars == <<whole, reader, fcall, pieces>>

Spaces == {" ", "\t", "\r", "\n"}
Digits == {"0", "1", "2"}
FloatChars == {"+", "-", "e", "."}
Failed == -1
Unset  == <<"unset">>

-----------------------------------------------------------------------------
\* The conversions, by the letters behind the percent sign.
Integer  == {<<"d">>, <<"u">>, <<"h", "d">>, <<"h", "u">>, <<"l", "d">>, <<"l", "u">>,
             <<"l", "l", "d">>, <<"l", "l", "u">>}
Floating == {<<"f">>, <<"l", "f">>, <<"L", "f">>}
Others   == {<<"%">>, <<"c">>, <<"s">>, <<"S">>, <<"*", "s">>, <<"p">>, <<"@">>}
Conversions == Integer \cup Floating \cup Others
OnlyPrinted == {<<"S">>}

\* The conversion a format begins with, behind the sign; <<>> is an invalid one.
Conversion(format) == LET fit == {c \in Conversions : IsPrefix(c, format)}
                    IN  IF fit = {} THEN <<>> ELSE CHOOSE c \in fit : TRUE

(***************************************************************************)
(* Printing.  An argument is [word, limit]; only %*s has a limit, and only *)
(* what %@ calls may fail.                                                 *)
(***************************************************************************)
AtMost(word, n) == SubSeq(word, 1, IF n < Len(word) THEN n ELSE Len(word))

Escapes == [ch \in {"\t", "\n", "\r", "\\", "'", "\"", "?"} |->
              CASE ch = "\t" -> <<"\\", "t">> [] ch = "\n" -> <<"\\", "n">>
                [] ch = "\r" -> <<"\\", "r">> [] OTHER -> <<"\\", ch>>]
Bell == "bell"       \* stands for the characters without a letter and without a shape
IOChannel_writeEscapedChar(ch) == CASE ch = Bell -> <<"0", "x", "6">>
                                    [] ch \in DOMAIN Escapes -> Escapes[ch]
                                    [] OTHER -> <<ch>>

PrintItem(conversion, argument) ==
    CASE conversion = <<"*", "s">> -> AtMost(argument.word, argument.limit)
      [] conversion = <<"S">> ->
           LET w == argument.word
           IN  FlattenSeq([i \in DOMAIN w |-> IOChannel_writeEscapedChar(w[i])])
      [] OTHER -> argument.word

RECURSIVE IOChannel_printFormatting(_, _)
IOChannel_printFormatting(format, arguments) ==
    CASE format = <<>> -> [text |-> <<>>, failed |-> FALSE]
      [] format # <<>> /\ Head(format) # "%" ->
           LET rest == IOChannel_printFormatting(Tail(format), arguments)
           IN  [rest EXCEPT !.text = <<Head(format)>> \o @]
      [] OTHER ->
           LET conversion == Conversion(Tail(format))
               behind     == SubSeq(format, 2 + Len(conversion), Len(format))
           IN  CASE conversion = <<>> -> [text |-> <<>>, failed |-> TRUE]
                 [] conversion = <<"%">> ->
                      LET rest == IOChannel_printFormatting(behind, arguments)
                      IN  [rest EXCEPT !.text = <<"%">> \o @]
                 [] conversion = <<"@">> /\ Head(arguments).word = <<>> ->
                      [text |-> <<>>, failed |-> TRUE]
                 [] OTHER -> LET rest == IOChannel_printFormatting(behind, Tail(arguments))
                             IN  [rest EXCEPT !.text = PrintItem(conversion, Head(arguments)) \o @]

-----------------------------------------------------------------------------
(***************************************************************************)
(* Scanning.  s is the reader with the rest of the format, the character   *)
(* read last (ch), the values so far, the number of items, and the counter *)
(* of the limited strings, which is never reset; ok tells whether the last *)
(* read or unget succeeded.                                                *)
(***************************************************************************)
Eof(s)   == s.found /\ s.back = <<>>
Going(s) == ~Eof(s) /\ ~s.error
ReadChar(s) ==
    CASE s.in = <<>> /\ s.back = <<>> -> [s EXCEPT !.found = TRUE, !.ok = FALSE]
      [] s.back # <<>> -> [s EXCEPT !.ch = Head(s.back), !.back = Tail(@), !.rd = @ + 1, !.ok = TRUE]
      [] OTHER -> [s EXCEPT !.ch = Head(s.in), !.in = Tail(@), !.rd = @ + 1, !.ok = TRUE]

Unget(s) == IF s.rd < 1 THEN [s EXCEPT !.ok = FALSE]
            ELSE [s EXCEPT !.back = <<s.ch>> \o @, !.rd = @ - 1, !.ok = TRUE]

RECURSIVE SkipSpaces(_, _)
SkipSpaces(s, spaces) ==
    IF s.ch \notin spaces \/ ~Going(s) THEN s
    ELSE LET r == ReadChar(s) IN IF r.ok THEN SkipSpaces(r, spaces) ELSE r
READSPACES(s) == SkipSpaces([s EXCEPT !.ch = " "], Spaces)

\* The wanted characters that come next.  When the text ends with them the
\* last one has been stored; only %s and %p have counted it by then, the
\* others overwrite it with the terminator.
RECURSIVE Take(_, _, _, _, _)
Take(s, word, wanted, room, counted) ==
    IF room <= 0 \/ ~Going(s) \/ s.ch \notin wanted THEN [s |-> s, word |-> word]
    ELSE LET r == ReadChar(s)
         IN  IF r.ok THEN Take(r, Append(word, s.ch), wanted, room - 1, counted)
             ELSE [s |-> r, word |-> IF counted THEN Append(word, s.ch) ELSE word]
UpTo(stops) == ToSet(whole) \ stops
AllOf(s) == Len(s.in) + 2

Separator(s) == IF s.format = <<>> THEN "end" ELSE Head(s.format)

\* Mutant: the character behind an item is lost.
PutBackNever(s, always, needed) == s

\* Behind an item at the end of the format the character read last is put
\* back; `always` even at the end of the text, `needed` if failing is an error.
PutBack(s, always, needed) ==
    IF s.format # <<>> \/ (Eof(s) /\ ~always) THEN s
    ELSE LET u == Unget(s) IN IF u.ok \/ ~needed THEN u ELSE [u EXCEPT !.error = TRUE]

\* The format goes on behind the separator, which the next character read was taken for.
PastSeparator(format) == IF format = <<>> THEN <<>> ELSE Tail(format)

IOChannel_scanItemInternal(s, allowed) ==
    LET first  == READSPACES(s)
        minus  == first.ch = "-"
        second == IF minus THEN ReadChar(first) ELSE first
        sign   == IF minus THEN <<"-">> ELSE <<>>
        taken  == Take(second, sign, allowed \ {Separator(s)}, AllOf(s), FALSE)
    IN  IF minus /\ ~second.ok THEN [s |-> second, word |-> <<"undefined">>]
        ELSE [s |-> PutBack(taken.s, FALSE, TRUE),
              word |-> IF ToSet(taken.word) \cap Digits = {} THEN Unset ELSE taken.word]

ScanWord(s) ==
    LET taken == Take(READSPACES(s), <<>>, UpTo(Spaces \cup {Separator(s)}), AllOf(s), TRUE)
        end   == PutBack(taken.s, FALSE, FALSE)
    IN  [s |-> IF taken.word = <<>> THEN [end EXCEPT !.items = @ - 1] ELSE end, word |-> taken.word]
ScanLimited(s, limit) ==
    LET taken == Take(READSPACES(s), <<>>, UpTo(Spaces), limit - s.used, FALSE)
    IN  [s |-> PutBack([taken.s EXCEPT !.used = @ + Len(taken.word)], TRUE, TRUE),
         word |-> taken.word]

\* The address is read into a buffer of its own: what is put back is older.
ScanPointer(s) ==
    LET taken == Take(READSPACES(s), <<>>, UpTo(Spaces \cup {Separator(s)}), AllOf(s), TRUE)
    IN  [s |-> PutBack([taken.s EXCEPT !.ch = s.ch], TRUE, FALSE),
         word |-> IF taken.word = <<>> THEN Unset ELSE taken.word]

\* What %@ calls reads one character here.
ScanCallBack(s) == LET r == ReadChar(s)
                   IN  IF r.ok THEN [s |-> [r EXCEPT !.ch = s.ch], word |-> <<r.ch>>]
                       ELSE [s |-> [r EXCEPT !.error = TRUE], word |-> Unset]

\* One conversion; s.format is what follows its letters.
ScanItem(conversion, s, limit) ==
    CASE conversion \in Integer  -> IOChannel_scanItemInternal(s, Digits)
      [] conversion \in Floating -> IOChannel_scanItemInternal(s, Digits \cup FloatChars)
      [] conversion = <<"s">>      -> ScanWord(s)
      [] conversion = <<"*", "s">> -> ScanLimited(s, limit)
      [] conversion = <<"p">>      -> ScanPointer(s)
      [] conversion = <<"@">>      -> ScanCallBack(s)
      [] OTHER -> LET r == READSPACES(s) IN [s |-> r, word |-> <<r.ch>>]
KeepsFormat == {<<"c">>, <<"%">>, <<"@">>}

\* A literal character: spaces before it are skipped, another one is put back.
ScanLiteral(s, ch) ==
    LET r == SkipSpaces([s EXCEPT !.ch = " "], IF ch \in Spaces THEN {" "} ELSE Spaces)
        matches == Going(r) /\ r.ch = ch
    IN  CASE matches -> r
          [] Going(r) /\ ~matches -> [Unget(r) EXCEPT !.format = <<>>]
          [] OTHER -> [r EXCEPT !.format = <<>>]

RECURSIVE IOChannel_scanFormatting(_, _)
IOChannel_scanFormatting(s, limit) ==
    CASE ~Going(s) \/ s.format = <<>> -> s
      [] Going(s) /\ Separator(s) = " " ->
           IOChannel_scanFormatting([s EXCEPT !.format = Tail(@)], limit)
      [] Going(s) /\ Separator(s) \notin {"%", " ", "end"} ->
           IOChannel_scanFormatting(
               ScanLiteral([s EXCEPT !.format = Tail(@)], Head(s.format)), limit)
      [] OTHER ->
           LET conversion == Conversion(Tail(s.format)) IN
           IF conversion \in OnlyPrinted \cup {<<>>}
           THEN [s EXCEPT !.error = TRUE]
           ELSE LET item == ScanItem(conversion,
                                [s EXCEPT !.format = SubSeq(@, 2 + Len(conversion), Len(@))], limit)
                    next == [item.s EXCEPT
                              !.format = IF conversion \in KeepsFormat THEN @ ELSE PastSeparator(@),
                              !.items  = IF conversion = <<"%">> THEN @ ELSE @ + 1,
                              !.args   = IF conversion = <<"%">> THEN @ ELSE Append(@, item.word)]
                IN  IOChannel_scanFormatting(next, limit)

-----------------------------------------------------------------------------
Fresh(text) == [in |-> text, back |-> <<>>, found |-> FALSE, rd |-> 0, error |-> FALSE]
Reading(format) == reader @@ [format |-> format, ch |-> "nul", ok |-> TRUE, args |-> <<>>,
                              items |-> 0, used |-> 0]
Unread(r) == r.back \o r.in

\* The conversions of a format that take an argument.
RECURSIVE ConversionsOf(_)
ConversionsOf(format) ==
    CASE format = <<>> -> <<>>
      [] format # <<>> /\ Head(format) # "%" -> ConversionsOf(Tail(format))
      [] OTHER -> LET c == Conversion(Tail(format))
                  IN  CASE c = <<>>    -> <<>>
                        [] c = <<"%">> -> ConversionsOf(SubSeq(format, 3, Len(format)))
                        [] OTHER -> <<c>> \o ConversionsOf(SubSeq(format, 2 + Len(c), Len(format)))

ArgumentLists(format) ==
    LET cs == ConversionsOf(format)
    IN  {l \in [1 .. Len(cs) -> UNION {Arguments[cs[i]] : i \in DOMAIN cs}] :
            \A i \in DOMAIN cs : l[i] \in Arguments[cs[i]]}

RECURSIVE GetLine(_, _)
GetLine(s, room) ==
    IF room = 0 THEN [s |-> s, line |-> <<>>]
    ELSE LET r == ReadChar(s)
         IN  IF ~r.ok \/ r.ch = "\n" THEN [s |-> r, line |-> <<>>]
             ELSE LET rest == GetLine(r, room - 1) IN [rest EXCEPT !.line = <<r.ch>> \o @]
IOChannel_gets(s, room) == GetLine(s, room)

IOChannel_puts(line, size) == AtMost(line, size)

-----------------------------------------------------------------------------
NoFCall == [name |-> "none", format |-> <<>>, args |-> <<>>, items |-> 0,
            given |-> <<>>, limit |-> 0, behind |-> <<>>, exact |-> TRUE, reads |-> 0]

FormattedInit == whole = <<>> /\ reader = Fresh(<<>>) /\ fcall = NoFCall /\ pieces = <<>>

\* IOChannel_printf(), and then what others write.
IOChannel_printf(format, arguments, behind) ==
    /\ LET p == IOChannel_printFormatting(format, arguments)
       IN  /\ whole' = p.text \o behind
           /\ reader' = [Fresh(p.text \o behind) EXCEPT !.error = p.failed]
           /\ fcall' = [fcall EXCEPT !.name = "printf", !.format = format, !.given = arguments,
                          !.behind = behind,
                          !.items = IF p.failed THEN Failed ELSE Len(p.text)]
    /\ UNCHANGED pieces

OtherText(text) ==
    /\ whole' = text /\ reader' = Fresh(text) /\ fcall' = [fcall EXCEPT !.name = "text"]
    /\ UNCHANGED pieces

IOChannel_scanf(format, limit) ==
    /\ fcall.reads < ReadsAtMost
    /\ \/ fcall.name = "printf" /\ format = fcall.format
          /\ \A i \in DOMAIN fcall.given : fcall.given[i].limit \in {0, limit}
       \/ fcall.name \in {"text", "scanf"}
    /\ LET end == IOChannel_scanFormatting(Reading(format), limit)
       IN  /\ reader' = [f \in DOMAIN reader |-> end[f]]
           /\ fcall' = [fcall EXCEPT
                !.name = IF fcall.name = "printf" THEN "scanf again" ELSE "scanf",
                !.format = format, !.limit = limit, !.reads = @ + 1,
                !.exact = @ /\ "p" \notin ToSet(format) /\ ("*" \in ToSet(format) => ~end.found),
                !.args = end.args, !.items = IF end.error THEN Failed ELSE end.items]
    /\ UNCHANGED <<whole, pieces>>

PutLine(line, size) ==
    /\ fcall.name \in {"none", "puts"} /\ fcall.reads < ReadsAtMost
    /\ whole' = Append(whole \o IOChannel_puts(line, size), "\n")
    /\ reader' = Fresh(whole')
    /\ fcall' = [fcall EXCEPT !.name = "puts", !.reads = @ + 1]
    /\ UNCHANGED pieces

ReadsLines == fcall.name \in {"text", "puts", "lines"} /\ ~Eof(reader)

GetALine(room) ==
    /\ ReadsLines
    /\ LET l == IOChannel_gets(Reading(<<>>), room)
       IN  /\ reader' = [f \in DOMAIN reader |-> l.s[f]]
           /\ pieces' = Append(pieces, IF Len(l.line) < room THEN Append(l.line, "\n") ELSE l.line)
    /\ fcall' = [fcall EXCEPT !.name = "lines"]
    /\ UNCHANGED whole

IOChannel_getc ==
    /\ ReadsLines
    /\ LET r == ReadChar(Reading(<<>>))
       IN  /\ reader' = [f \in DOMAIN reader |-> r[f]]
           /\ pieces' = IF r.ok THEN Append(pieces, <<r.ch>>) ELSE pieces
           /\ fcall' = [fcall EXCEPT !.name = IF r.ok THEN "lines" ELSE "end"]
    /\ UNCHANGED whole

FormattedNext ==
    \/ /\ fcall.name = "none"
       /\ \/ \E f \in TextFormats, b \in Behind : \E l \in ArgumentLists(f) : IOChannel_printf(f, l, b)
          \/ \E n \in 0 .. TextAtMost : \E t \in [1 .. n -> TextChars] : OtherText(t)
    \/ \E f \in TextFormats, n \in 1 .. 2 : IOChannel_scanf(f, n)
    \/ \E l \in Lines, n \in LineRoom : PutLine(l, n)
    \/ \E n \in LineRoom : GetALine(n)
    \/ IOChannel_getc

-----------------------------------------------------------------------------
\* Each conversion but %c and %@ is followed by a space, a comma or the end,
\* a % sign is never printed, and no more than one string is limited.
Separated(format) ==
    LET cs == ConversionsOf(format)
    IN  /\ <<>> \notin {Conversion(SubSeq(format, i + 1, Len(format))) :
                          i \in {j \in DOMAIN format : format[j] = "%"}}
        /\ \A i \in DOMAIN format : format[i] = "%" =>
              LET c == Conversion(SubSeq(format, i + 1, Len(format)))
                  n == i + 1 + Len(c)
              IN  /\ c # <<"%">>
                  /\ c \in {<<"c">>, <<"@">>} \/ n > Len(format)
                     \/ format[n] \in (IF c = <<"*", "s">> THEN {" "} ELSE {" ", ","})
        /\ \A i, j \in DOMAIN cs : cs[i] = <<"*", "s">> /\ cs[j] = cs[i] => i = j

WithoutSpaces(text) == SelectSeq(text, LAMBDA c : c # " ")

Cut(argument) == IF argument.limit = 0 THEN argument.word
                 ELSE AtMost(argument.word, argument.limit)

(***************************************************************************)
(* What was printed is read with the same format: every value, as many     *)
(* items as there are conversions, and not a character of what follows,    *)
(* when the conversions are separated and something follows.               *)
(***************************************************************************)
PrintedIsRead ==
    fcall.name = "scanf again" /\ Separated(fcall.format) /\ fcall.behind # <<>>
      /\ fcall.exact /\ (\A i \in DOMAIN fcall.given : fcall.given[i].word # <<>>)
      /\ OnlyPrinted \cap ToSet(ConversionsOf(fcall.format)) = {}
    => /\ fcall.items = Len(fcall.given)
       /\ fcall.args = [i \in DOMAIN fcall.given |-> Cut(fcall.given[i])]
       /\ WithoutSpaces(Unread(reader)) = WithoutSpaces(fcall.behind)

(***************************************************************************)
(* Whatever is scanned with whatever format, one call after the other:     *)
(* what is left to read is the end of the text, and the bytes that are     *)
(* counted are those before it.  (Not so behind %p, and when %*s meets the *)
(* end of the text: then a character that was not read is put back.)       *)
(***************************************************************************)
LeftIsUnread ==
    fcall.exact => /\ IsSuffix(Unread(reader), whole)
                   /\ reader.rd = Len(whole) - Len(Unread(reader))

(***************************************************************************)
(* A limited string stays in the memory it is given, with whatever text:   *)
(* no more characters are stored than the limit says.                      *)
(***************************************************************************)
WithinLimit ==
    fcall.name \in {"scanf", "scanf again"} =>
      LET cs == ConversionsOf(fcall.format)
      IN  \A i \in DOMAIN fcall.args :
            cs[i] = <<"*", "s">> => Len(fcall.args[i]) <= fcall.limit

(***************************************************************************)
(* An escaped string is printable and can be told apart: no other string   *)
(* of printable characters is written the same way.                        *)
(***************************************************************************)
EscapedIsDistinct ==
    fcall.name = "printf" /\ fcall.format = <<"%", "S">> =>
      /\ ToSet(AtMost(whole, fcall.items)) \cap {"\t", "\n", "\r", Bell} = {}
      /\ \A other \in Arguments[<<"S">>] :
            Bell \notin ToSet(other.word) \cup ToSet(fcall.given[1].word)
            /\ IOChannel_printFormatting(fcall.format, <<other>>).text \o fcall.behind = whole
            => other.word = fcall.given[1].word

(***************************************************************************)
(* Lines longer than the room come in pieces, and together they are the    *)
(* text: a piece that fills its room does not end the line, any other      *)
(* does.                                                                   *)
(***************************************************************************)
LinesRejoin ==
    fcall.name = "lines" =>
      IF ~Eof(reader) THEN FlattenSeq(pieces) \o Unread(reader) = whole
      ELSE FlattenSeq(pieces) = Append(whole, "\n")

(* What a format prints it scans again, and leaves the rest of the channel to*)
(* whoever reads next.                                                       *)
TextsAreScanned ==
    /\ PrintedIsRead
    /\ LeftIsUnread
    /\ WithinLimit
    /\ EscapedIsDistinct
    /\ LinesRejoin
=============================================================================
