-------------------------- MODULE SerializeSession --------------------------
(***************************************************************************)
(* A writer and a reader that each call serialize functions on their own   *)
(* Serialize object, the one after the other on the same channel: headers, *)
(* sizes, and the way an error leaves the serialize functions (setjmp in   *)
(* Serialize_beginType(), longjmp in every later operation).               *)
(*                                                                         *)
(* A serialize function is a sequence of members: "value" is serialized    *)
(* directly, "base" by a function for a base type, and the name of a type  *)
(* by the function of that type.  The channel is a sequence of units: a    *)
(* header of two units and a third for options, and values.                *)
(***************************************************************************)
EXTENDS Integers, Sequences, SequencesExt, FiniteSets

CONSTANTS Members,       \* of each type: a function to sequences
          RootTypes,     \* the types of whole objects
          Setups,        \* modes, formats and kind of channel of a session
          HasOptions,    \* the formats that have options
          SessionObjects,    \* bound on the objects of the writer and of the reader
          MaxFaults,     \* bound on the operations of the channel that fail
          BufferSize     \* of the write buffer, in units

VARIABLES setup,
          serialize,          \* the Serialize object of the one that is calling
          stack,         \* of serialize functions that are running
          channel, flushed, position, eof,
          got,           \* what the running or last call has stored
          began,         \* the place in the channel where that call began
          stage,         \* "writing", "reading", or how it ended: "stopped" by a failed
                         \* ANY_REQUIRE, "undefined" by a jump into a function that returned,
                         \* "done" when SerializeUtility has closed its file
          elements,      \* that SerializeUtility has read and passed on
          calls, faults,
          outcome        \* of the last call: "running", "returned", "jumped" or "none"

sessionVars == <<setup, serialize, stack, channel, flushed, position, eof, got, began, stage, elements, calls, faults, outcome>>

Junk   == <<0, 0>>
NoJump == [frame |-> <<>>, base |-> FALSE]

(***************************************************************************)
(* Modes, formats and options.                                             *)
(***************************************************************************)
Serialize_setMode(s, modes) ==
  [s EXCEPT !.mode = IF "read" \in modes THEN "read" ELSE "write",
            !.streamMode = CASE "loop" \in modes  -> "loop"
                             [] "flush" \in modes /\ "loop" \notin modes -> "flush"
                             [] OTHER -> @,
            !.autoCalc = "autocalc" \in modes,
            !.useHeader = "noheader" \notin modes,
            !.offsetForLoop = 0]

\* A format with options stores them in the header, its default ones if none are given.
SERIALIZEFORMATOPTIONS_SET(s, opts) ==
  IF s.format \in HasOptions
    THEN [s EXCEPT !.opts = IF opts = "" THEN "default" ELSE opts] ELSE s

\* A writer enters the format in the reference list of its header.
Serialize_setFormat(s, format, opts) ==
  IF format \notin s.known THEN s
  ELSE SERIALIZEFORMATOPTIONS_SET(
         IF s.mode = "write" THEN [s EXCEPT !.format = format, !.opts = "", !.listed = TRUE]
         ELSE [s EXCEPT !.format = format], opts)

Serialize_partialReset(s) ==
  [s EXCEPT !.error = FALSE, !.jump = NoJump, !.numTypeCalls = 0, !.backOff = 0, !.objInitialOffset = 0]

Serialize_init(known) ==
  [mode |-> "none", streamMode |-> "normal", autoCalc |-> FALSE, useHeader |-> TRUE,
   offsetForLoop |-> 0, format |-> "none", opts |-> "", known |-> known,
   listed |-> FALSE, error |-> FALSE, jump |-> NoJump, numTypeCalls |-> 0, backOff |-> 0,
   objInitialOffset |-> 0, objSize |-> 0, headerSize |-> 0]

\* The quick serializers set the format, if any, before the mode; other owners after it.
FileSerializer_open(s, who) ==
  Serialize_setMode(IF who.format = "none" THEN s ELSE Serialize_setFormat(s, who.format, ""), who.modes)

NewSession(who) ==
  LET s == Serialize_init(who.known)
      t == Serialize_setMode(s, who.modes)
  IN  CASE who.quick -> FileSerializer_open(s, who)
        [] ~who.quick /\ who.format = "none" -> t
        [] OTHER -> Serialize_setFormat(t, who.format, who.opts)

(***************************************************************************)
(* Steps of an operation, on a record of what it changes.                  *)
(***************************************************************************)
Now == [s |-> serialize, stack |-> stack, channel |-> channel, flushed |-> flushed,
        position |-> position, eof |-> eof, got |-> got, stage |-> stage, jumped |-> FALSE, fault |-> FALSE]

Returned(q)  == q.jumped \/ q.stage \notin {"writing", "reading"}

Stopped(q)   == [q EXCEPT !.stage = "stopped"]
Place(q)     == IF q.s.mode = "read" THEN q.position ELSE Len(q.channel)

\* The function that set the jump returns, and those it called are gone.
LongJump(q) ==
  LET target == {i \in DOMAIN q.stack : q.stack[i].id = q.s.jump.frame}
      r == [q EXCEPT !.s.jump = NoJump, !.jumped = TRUE]
  IN  IF q.s.jump.base \/ target = {} THEN [r EXCEPT !.stage = "undefined"]
      ELSE [r EXCEPT !.stack = SubSeq(@, 1, (CHOOSE i \in target : TRUE) - 1)]

\* SERIALIZE_SKIPIFERROR_START
SkipIfError(q) ==
  IF Returned(q) \/ ~(q.s.error \/ q.eof) \/ q.s.jump = NoJump THEN q ELSE LongJump(q)

\* A full write buffer is flushed before more is written into it.
WriteUnits(q, units) ==
  LET full == q.flushed + BufferSize < Len(q.channel) + Len(units)
  IN  [q EXCEPT !.channel = @ \o units,
                !.flushed = IF setup.stream = "buffered" /\ full THEN Len(q.channel) ELSE @]

(***************************************************************************)
(* The header.  Its size is measured around writing and reading it; when   *)
(* the size of the object is set, it is computed again, and then as if     *)
(* there were options in any case; without a header in the reference list  *)
(* the process stops there.                                                *)
(***************************************************************************)
HeaderUnits(opts)  == IF opts = "" THEN 2 ELSE 3
ComputedHeaderSize == 3

SerializeHeader_setInfo(q, objSize) ==
  IF ~q.s.listed THEN Stopped(q)
  ELSE [q EXCEPT !.s.objSize = IF objSize > 0 THEN objSize ELSE @, !.s.headerSize = ComputedHeaderSize]

\* Mutant: the place of the header is not saved.
WriteHeaderNoBackOff(q, type) ==
  LET header == [kind |-> "header", obj |-> calls, type |-> type, format |-> q.s.format,
                 opts |-> q.s.opts, objSize |-> 0]
      units == [i \in 1 .. HeaderUnits(q.s.opts) |-> IF i = 1 THEN header ELSE [kind |-> "rest"]]
  IN  WriteUnits([q EXCEPT !.s.headerSize = Len(units)], units)

WriteHeader(q, type) ==
  LET header == [kind |-> "header", obj |-> calls, type |-> type, format |-> q.s.format,
                 opts |-> q.s.opts, objSize |-> 0]
      units == [i \in 1 .. HeaderUnits(q.s.opts) |-> IF i = 1 THEN header ELSE [kind |-> "rest"]]
  IN  WriteUnits([q EXCEPT !.s.backOff = Len(q.channel), !.s.headerSize = Len(units)], units)

\* An object of another type is an error; a format that is not known leaves the reader's own.
ReadHeader(q, type) ==
  LET at == IF q.s.streamMode = "loop" THEN q.s.offsetForLoop ELSE q.position
      r  == [q EXCEPT !.position = at]
  IN  CASE at = Len(q.channel) -> [r EXCEPT !.eof = TRUE, !.s.error = TRUE]
        [] at < Len(q.channel) /\ q.channel[at + 1].kind # "header" -> [r EXCEPT !.s.error = TRUE]
        [] at < Len(q.channel) /\ q.channel[at + 1].kind = "header" ->
             LET header == q.channel[at + 1]
                 size   == HeaderUnits(header.opts)
                 s      == Serialize_setFormat(r.s, header.format, header.opts)
                 t      == IF header.format \in s.known \/ s.format = "none" THEN s
                           ELSE Serialize_setFormat(s, s.format, header.opts)
             IN  IF at + size > Len(q.channel) THEN [r EXCEPT !.eof = TRUE, !.s.error = TRUE,
                                                              !.position = Len(q.channel)]
                 ELSE IF header.type # type THEN [r EXCEPT !.s.error = TRUE, !.position = at + size]
                 ELSE [r EXCEPT !.position = at + size,
                                !.s = [t EXCEPT !.headerSize = size, !.error = t.format = "none",
                                                !.listed = TRUE]]

Serialize_doFirstBeginTypeCallOps(q, type) ==
  LET r == [q EXCEPT !.s.objSize = 0, !.s.headerSize = 0]
  IN  IF q.s.mode = "write" THEN WriteHeader(r, type) ELSE ReadHeader(r, type)

Serialize_internalBeginType(q, type) ==
  LET p == SkipIfError(q)
      r == IF p.s.numTypeCalls = 0 /\ p.s.useHeader THEN Serialize_doFirstBeginTypeCallOps(p, type) ELSE p
      t == IF p.s.numTypeCalls = 0 THEN [r EXCEPT !.s.objInitialOffset = Place(r)] ELSE r
  IN  CASE Returned(p) -> p
        [] ~Returned(p) /\ (Returned(r) \/ r.s.format = "none") -> Stopped(r)
        [] OTHER -> [t EXCEPT !.s.numTypeCalls = @ + 1]

(***************************************************************************)
(* AUTOCALC writes the size into the header, if that is still in memory    *)
(* and found where it should be.                                           *)
(***************************************************************************)
Serialize_doAutoCalcSizeOps(q) ==
  LET total  == q.s.headerSize + q.s.objSize
      at     == 1 + IF setup.stream = "memory" THEN q.s.backOff ELSE Len(q.channel) - total
      inMemory == setup.stream = "memory" \/ total <= Len(q.channel) - q.flushed
  IN  CASE ~inMemory -> q
        [] inMemory /\ q.channel[at].kind = "header" -> [q EXCEPT !.channel[at].objSize = q.s.objSize]
        [] OTHER -> [q EXCEPT !.s.error = @ \/ setup.stream = "memory"]

Serialize_doLastEndTypeCallOps(q) ==
  IF q.s.mode = "write" /\ q.s.streamMode = "flush"
    THEN [q EXCEPT !.flushed = Len(q.channel), !.s.backOff = Len(q.channel)] ELSE q

Serialize_internalEndType(q) ==
  LET p == SkipIfError(q)
      r == [p EXCEPT !.s.numTypeCalls = @ - 1]
      t == IF r.s.objSize = 0 THEN SerializeHeader_setInfo(r, Place(r) - r.s.objInitialOffset) ELSE r
      u == IF t.s.useHeader /\ t.s.autoCalc /\ t.s.mode = "write" THEN Serialize_doAutoCalcSizeOps(t) ELSE t
  IN  CASE Returned(p) -> p
        [] ~Returned(p) /\ r.s.numTypeCalls < 0 -> Stopped(r)
        [] ~Returned(p) /\ r.s.numTypeCalls > 0 -> r
        [] ~Returned(p) /\ r.s.numTypeCalls = 0 ->
             IF Returned(t) THEN t ELSE Serialize_doLastEndTypeCallOps(u)

(***************************************************************************)
(* The macros.  The frame whose registers are saved is the one they stand  *)
(* in: the serialize function, or Serialize_beginBaseType(), which has     *)
(* returned when the jump is made later on.                                *)
(***************************************************************************)
TopObject(q) == Last(q.stack)

Serialize_beginType(q) ==
  Serialize_internalBeginType(
    IF q.s.jump = NoJump THEN [q EXCEPT !.s.jump = [frame |-> TopObject(q).id, base |-> FALSE]] ELSE q,
    TopObject(q).type)

Serialize_endType(q) ==
  LET r == Serialize_internalEndType(q) IN IF Returned(r) THEN r ELSE [r EXCEPT !.s.jump = NoJump]

\* A jump while it runs returns from it; the caller goes on.
Serialize_beginBaseType(q) ==
  LET p == SkipIfError(q)
      own == p.s.jump = NoJump
  IN  CASE q.s.format = "none" -> Stopped(q)
        [] q.s.format # "none" /\ Returned(p) -> p
        [] q.s.format # "none" /\ ~Returned(p) /\ own /\ (p.s.error \/ p.eof) -> p
        [] OTHER -> Serialize_internalBeginType(
                      IF own THEN [p EXCEPT !.s.jump = [frame |-> <<>>, base |-> TRUE]] ELSE p, "base")

Serialize_endBaseType(q) ==
  LET p == SkipIfError(q) IN IF Returned(p) THEN p ELSE Serialize_internalEndType(p)

\* The channel may fail, or end, which is an error to some formats only.  What is not a value
\* of the reader's format and options is refused, or taken for another value.
Serialize_deployDataType(q) ==
  LET failed == {[q EXCEPT !.s.error = TRUE, !.fault = TRUE] : n \in faults + 1 .. MaxFaults}
      index  == Len(SelectSeq(q.channel, LAMBDA u : u.kind = "value" /\ u.obj = calls)) + 1
      value  == [kind |-> "value", obj |-> calls, index |-> index, format |-> q.s.format, opts |-> q.s.opts]
      next   == q.channel[q.position + 1]
      same   == next.kind = "value" /\ next.format = q.s.format /\ next.opts = q.s.opts
      read   == [q EXCEPT !.position = @ + 1, !.got = Append(@, IF same THEN <<next.obj, next.index>> ELSE Junk)]
  IN  CASE q.s.mode = "write" -> failed \cup {WriteUnits(q, <<value>>)}
        [] q.s.mode = "read" /\ q.position >= Len(q.channel) ->
             {[q EXCEPT !.eof = TRUE, !.s.error = @ \/ e] : e \in BOOLEAN}
        [] q.s.mode = "read" /\ q.position < Len(q.channel) ->
             failed \cup {read} \cup (IF same THEN {} ELSE {[q EXCEPT !.s.error = TRUE]})

Serialize_doSerialize(q) ==
  LET p == SkipIfError(q) IN IF Returned(p) THEN {p} ELSE Serialize_deployDataType(p)

(***************************************************************************)
(* The callers.                                                            *)
(***************************************************************************)
MembersOf(type) == IF type = "base" THEN <<"value">> ELSE Members[type]

\* A frame is named for the way to it, and differs from those that returned before.
Frame(call, below, type) ==
  [id |-> <<call>> \o [i \in DOMAIN below |-> below[i].pc], type |-> type, pc |-> 0]

\* An operation of the function on top is done; unless that is left by a jump, it goes on
\* at `pc`, or returns.
DoObject(q, pc) ==
  LET left == pc > Len(MembersOf(TopObject(q).type)) + 1
  IN  /\ serialize' = q.s /\ channel' = q.channel /\ flushed' = q.flushed /\ position' = q.position
      /\ eof' = q.eof /\ got' = q.got /\ stage' = q.stage
      /\ faults' = IF q.fault THEN faults + 1 ELSE faults
      /\ stack' = CASE Returned(q) -> q.stack
                    [] ~Returned(q) /\ left -> Front(q.stack)
                    [] OTHER -> [q.stack EXCEPT ![Len(q.stack)].pc = pc]
      /\ outcome' = CASE stack' # <<>> -> outcome
                      [] stack' = <<>> /\ q.jumped  -> "jumped"
                      [] stack' = <<>> /\ ~q.jumped -> "returned"
      /\ UNCHANGED <<setup, calls, began, elements>>

\* SerializeUtility reads a file of the type that the first header tells.
Utility == stage = "reading" /\ setup.reader.utility

\* Someone calls a serialize function.
UserCall(type) ==
  /\ stage \in {"writing", "reading"} /\ stack = <<>>
  /\ IF Utility THEN /\ calls <= SessionObjects /\ outcome = "none" /\ channel # <<>>
                    /\ channel[1].kind = "header" /\ type = channel[1].type
                ELSE calls < SessionObjects
  /\ calls' = calls + 1
  /\ stack' = <<Frame(calls', <<>>, type)>>
  /\ got' = <<>> /\ outcome' = "running"
  /\ began' = [at |-> IF serialize.streamMode = "loop" THEN serialize.offsetForLoop ELSE position, type |-> type,
               faults |-> faults, clean |-> ~serialize.error /\ ~eof /\ serialize.numTypeCalls = 0]
  /\ UNCHANGED <<setup, serialize, channel, flushed, position, eof, stage, elements, faults>>

Running == Last(stack)
InFunction == stage \in {"writing", "reading"} /\ stack # <<>>

Begin ==
  /\ InFunction /\ Running.pc = 0
  /\ DoObject(IF Running.type = "base" THEN Serialize_beginBaseType(Now) ELSE Serialize_beginType(Now), 1)

SerializeValue ==
  /\ InFunction /\ Running.pc \in DOMAIN MembersOf(Running.type) /\ MembersOf(Running.type)[Running.pc] = "value"
  /\ \E q \in Serialize_doSerialize(Now) : DoObject(q, Running.pc + 1)

CallMember ==
  /\ InFunction /\ Running.pc \in DOMAIN MembersOf(Running.type) /\ MembersOf(Running.type)[Running.pc] # "value"
  /\ LET below == [stack EXCEPT ![Len(stack)].pc = @ + 1]
     IN  stack' = Append(below, Frame(calls, below, MembersOf(Running.type)[Running.pc]))
  /\ UNCHANGED <<setup, serialize, channel, flushed, position, eof, got, began, stage, elements, calls, faults, outcome>>

End ==
  /\ InFunction /\ Running.pc = Len(MembersOf(Running.type)) + 1
  /\ DoObject(IF Running.type = "base" THEN Serialize_endBaseType(Now) ELSE Serialize_endType(Now), Running.pc + 1)

Serialize_cleanError ==
  /\ stage \in {"writing", "reading"} /\ stack = <<>> /\ serialize.error /\ ~Utility
  /\ serialize' = Serialize_partialReset(serialize)
  /\ UNCHANGED <<setup, stack, channel, flushed, position, eof, got, began, stage, elements, calls, faults, outcome>>

HeaderIsWhole ==
  /\ position < Len(channel) /\ channel[position + 1].kind = "header"
  /\ Len(channel) - position >= HeaderUnits(channel[position + 1].opts)

\* Options are asked for here though the header need not have them.
FieldsAreFound(parseOpts) == HeaderIsWhole /\ (parseOpts => channel[position + 1].opts # "")

\* The header is put back, except when one of its parts is not found.
HeaderPutBack(parseOpts) ==
  CASE FieldsAreFound(parseOpts) -> position
    [] HeaderIsWhole /\ ~FieldsAreFound(parseOpts) -> position + HeaderUnits(channel[position + 1].opts)
    [] ~HeaderIsWhole /\ position < Len(channel) /\ channel[position + 1].kind = "header" -> Len(channel)
    [] OTHER -> position

Serialize_peekHeader(parseOpts) ==
  /\ stage = "reading" /\ stack = <<>> /\ serialize.useHeader /\ ~Utility
  /\ serialize' = [serialize EXCEPT !.error = @ \/ ~FieldsAreFound(parseOpts)]
  /\ position' = HeaderPutBack(parseOpts)
  /\ eof' = (eof \/ position = Len(channel) \/ (~HeaderIsWhole /\ channel[position + 1].kind = "header"))
  /\ outcome' = "none"
  /\ UNCHANGED <<setup, stack, channel, flushed, got, began, stage, elements, calls, faults>>

\* At the end of the file what the last call read is dropped; an error stops the process.
SerializeUtility_processFile ==
  /\ Utility /\ stack = <<>> /\ outcome # "none"
  /\ stage' = CASE eof -> "done" [] ~eof /\ serialize.error -> "stopped" [] OTHER -> stage
  /\ elements' = IF stage' = "reading" THEN Append(elements, got) ELSE elements
  /\ outcome' = "none"
  /\ UNCHANGED <<setup, serialize, stack, channel, flushed, position, eof, got, began, calls, faults>>

\* The channel is closed, or the writer is gone with what it had not flushed: then the
\* other one reads.
ReadObject(what) ==
  /\ stage = "writing"
  /\ channel' = what /\ flushed' = Len(what)
  /\ stage' = "reading" /\ serialize' = NewSession(setup.reader)
  /\ position' = 0 /\ stack' = <<>> /\ got' = <<>> /\ calls' = 0 /\ outcome' = "none"
  /\ began' = [at |-> 0, type |-> "none", faults |-> faults, clean |-> FALSE]
  /\ UNCHANGED <<setup, eof, elements, faults>>

CloseSession == stack = <<>> /\ ReadObject(channel)

WriterCrashes ==
  \E n \in (IF setup.stream = "buffered" THEN flushed ELSE Len(channel)) .. Len(channel) :
     ReadObject(SubSeq(channel, 1, n))

SessionInit ==
  /\ setup \in Setups
  /\ serialize = NewSession(setup.writer)
  /\ stack = <<>> /\ channel = <<>> /\ flushed = 0 /\ position = 0 /\ eof = FALSE
  /\ got = <<>> /\ stage = "writing" /\ elements = <<>> /\ calls = 0 /\ faults = 0
  /\ outcome = "none"
  /\ began = [at |-> 0, type |-> "none", faults |-> 0, clean |-> FALSE]

SessionNext ==
  \/ \E type \in RootTypes : UserCall(type)
  \/ Begin \/ SerializeValue \/ CallMember \/ End
  \/ Serialize_cleanError \/ (\E parseOpts \in BOOLEAN : Serialize_peekHeader(parseOpts))
  \/ SerializeUtility_processFile \/ CloseSession \/ WriterCrashes

SessionSpec == SessionInit /\ [][SessionNext]_sessionVars

(***************************************************************************)
(* Properties.                                                             *)
(***************************************************************************)
SessionTypeOK ==
  /\ serialize.mode \in {"write", "read"} /\ (stage = "stopped" \/ serialize.numTypeCalls >= 0)
  /\ position \in 0 .. Len(channel) /\ flushed \in 0 .. Len(channel)
  /\ stage \in {"writing", "reading", "stopped", "undefined", "done"}
  /\ outcome \in {"none", "running", "returned", "jumped"}
  /\ (outcome = "running" /\ stage \in {"writing", "reading"}) <=> InFunction

\* Outside base types, the function to which an error returns is one that is running:
\* Serialize_endType() takes back what Serialize_beginType() saved.
JumpIsLive ==
  stage \in {"writing", "reading"} =>
    (serialize.jump = NoJump \/ serialize.jump.base \/ \E i \in DOMAIN stack : stack[i].id = serialize.jump.frame)

ValuesOf[type \in DOMAIN Members \cup {"base"}] ==
  FoldSeq(LAMBDA member, n : n + IF member = "value" THEN 1 ELSE ValuesOf[member], 0, MembersOf(type))

\* At a place in the channel there is an object that was written to its end, in a format
\* that the reader has.
CompleteAt(at) ==
  LET header == channel[at + 1]
      size   == HeaderUnits(header.opts)
      last   == at + size + ValuesOf[header.type]
  IN  /\ at < Len(channel) /\ header.kind = "header" /\ header.format \in serialize.known
      /\ last <= Len(channel)
      /\ \A i \in at + size + 1 .. last :
           channel[i].kind = "value" /\ channel[i].obj = header.obj /\ channel[i].index = i - at - size

\* A reader that starts clean at a complete object of its type gets the values of that
\* object, all and in their order, in the format and with the options that the header
\* tells, whatever went wrong before.
WholeObject ==
  stage = "reading" /\ stack = <<>> /\ outcome # "none" /\ began.clean /\ faults = began.faults
    /\ serialize.useHeader /\ CompleteAt(began.at) /\ channel[began.at + 1].type = began.type
    => /\ outcome = "returned" /\ ~serialize.error /\ ~eof
       /\ got = [i \in 1 .. ValuesOf[began.type] |-> <<channel[began.at + 1].obj, i>>]

\* Serialize_getPayloadSize() is that of the last object, to the writer and to the reader.
SizeOfLastObject ==
  stage \in {"writing", "reading"} /\ outcome = "returned" /\ serialize.useHeader /\ ~serialize.error /\ ~eof
    /\ began.clean => serialize.objSize = ValuesOf[began.type]

\* Unless an error was left uncleaned, AUTOCALC changes the header of the object it ends,
\* and to the size of that object; in memory it does so for every object that is written
\* to its end.
AutoCalcIsRight ==
  [][stage = "writing" /\ stage' = "writing" /\ began.clean =>
       /\ \A i \in DOMAIN channel :
            channel'[i] # channel[i] => channel[i].obj = calls /\ channel'[i].objSize = ValuesOf[began.type]
       /\ setup.stream = "memory" /\ serialize.autoCalc /\ serialize.useHeader /\ stack # <<>> /\ stack' = <<>>
            /\ outcome' = "returned"
            => \E i \in DOMAIN channel : channel[i].kind = "header" /\ channel[i].obj = calls
                                         /\ channel'[i].objSize = ValuesOf[began.type]]_sessionVars

\* SerializeUtility passes on the objects of its file, each once, whole and in order; if
\* nothing failed, then also all of them, however the file ends.
EveryElementOnce ==
  LET Count == ValuesOf[channel[1].type]
      Objects == {i \in DOMAIN channel : channel[i].kind = "header" /\ CompleteAt(i - 1)}
  IN  setup.reader.utility /\ faults = 0 =>
        /\ \A n \in DOMAIN elements : elements[n] = [i \in 1 .. Count |-> <<n, i>>]
        /\ stage = "done" => Len(elements) = Cardinality(Objects)

\* Once an error has occurred, a serialize function other than that of a base type
\* writes, reads and stores nothing more.
NothingAfterError ==
  [][serialize.error /\ InFunction /\ stage' = stage /\ stack[1].type # "base"
       => UNCHANGED <<channel, position, got>>]_sessionVars

(* A reader gets the objects of the writer, whole and one by one, and what   *)
(* fails on either side ends in the error that the caller sees.              *)
SessionsAreFaithful ==
    /\ [](SessionTypeOK /\ JumpIsLive /\ WholeObject /\ SizeOfLastObject /\ EveryElementOnce)
    /\ AutoCalcIsRight
    /\ NothingAfterError
=============================================================================
