------------------------- MODULE SerializeRoundTrip -------------------------
(***************************************************************************)
(* Objects serialized in one of the formats and read back.                 *)
(*                                                                         *)
(* A serialize function is a sequence of calls: Serialize_beginType(),     *)
(* members, Serialize_endType().  The generator below makes the calls one  *)
(* by one, as generated serialize functions do, on three serializers: w    *)
(* writes, k calculates sizes (CALC mode), and r reads the text of w with  *)
(* the same calls once all objects are written.                            *)
(***************************************************************************)
EXTENDS SerializeFormats, FiniteSets

CONSTANTS Configs,        \* [format, data, readerData]: formats and their options
          MaxObjects,     \* objects written one after the other
          MaxMembers,     \* fields, base types and arrays, empty arrays included
          MaxDepth,       \* nesting of structures
          ArrayLengths,   \* of arrays of base types
          ElementCounts   \* of arrays of structures

VARIABLES config, w, k, r,
          script,          \* the calls made so far
          open,           \* what was begun and not yet ended, innermost last
          objects,        \* the objects begun
          start,          \* where the text of the last object starts
          phase           \* "write", then "read"

vars == <<config, w, k, r, script, open, objects, start, phase>>

(***************************************************************************)
(* The operations of a format (SerializeFormat.ops).                       *)
(***************************************************************************)
BeginTypeOp(f, s, c) ==
  CASE f = "Ascii"  -> SerializeFormatAscii_beginType(s, c)
    [] f = "Binary" -> SerializeFormatBinary_beginType(s, c)
    [] f = "Json"   -> SerializeFormatJson_beginType(s, c)
    [] f = "Matlab" -> SerializeFormatMatlab_beginType(s, c)
    [] f = "Python" -> SerializeFormatPython_beginType(s, c)
    [] f = "Xml"    -> SerializeFormatXml_beginType(s, c)

BeginBaseTypeOp(f, s, c) ==
  CASE f = "Ascii"  -> SerializeFormatAscii_beginBaseType(s, c)
    [] f = "Binary" -> SerializeFormatBinary_beginBaseType(s, c)
    [] f = "Json"   -> SerializeFormatJson_beginBaseType(s, c)
    [] f = "Matlab" -> SerializeFormatMatlab_beginBaseType(s, c)
    [] f = "Python" -> SerializeFormatPython_beginBaseType(s, c)
    [] f = "Xml"    -> SerializeFormatXml_beginBaseType(s, c)

EndTypeOp(f, s) ==
  CASE f = "Ascii"  -> SerializeFormatAscii_endType(s)
    [] f = "Binary" -> SerializeFormatBinary_endType(s)
    [] f = "Json"   -> SerializeFormatJson_endType(s)
    [] f = "Matlab" -> SerializeFormatMatlab_endType(s)
    [] f = "Python" -> SerializeFormatPython_endType(s)
    [] f = "Xml"    -> SerializeFormatXml_endType(s)

EndBaseTypeOp(f, s) ==
  CASE f = "Ascii"  -> SerializeFormatAscii_endBaseType(s)
    [] f = "Binary" -> SerializeFormatBinary_endBaseType(s)
    [] f = "Json"   -> SerializeFormatJson_endBaseType(s)
    [] f = "Matlab" -> SerializeFormatMatlab_endBaseType(s)
    [] f = "Python" -> SerializeFormatPython_endBaseType(s)
    [] f = "Xml"    -> SerializeFormatXml_endBaseType(s)

BeginArrayOp(f, s, c) ==
  CASE f = "Ascii"  -> SerializeFormatAscii_beginArray(s, c)
    [] f = "Binary" -> SerializeFormatBinary_beginArray(s, c)
    [] f = "Json"   -> SerializeFormatJson_beginArray(s, c)
    [] f = "Matlab" -> SerializeFormatMatlab_beginArray(s, c)
    [] f = "Python" -> SerializeFormatPython_beginArray(s, c)
    [] f = "Xml"    -> SerializeFormatXml_beginArray(s, c)

EndArrayOp(f, s, c) ==
  CASE f = "Ascii"  -> SerializeFormatAscii_endArray(s, c)
    [] f = "Binary" -> SerializeFormatBinary_endArray(s, c)
    [] f = "Json"   -> SerializeFormatJson_endArray(s, c)
    [] f = "Matlab" -> SerializeFormatMatlab_endArray(s, c)
    [] f = "Python" -> SerializeFormatPython_endArray(s, c)
    [] f = "Xml"    -> SerializeFormatXml_endArray(s, c)

BeginStructArrayOp(f, s, c) ==
  CASE f = "Ascii"  -> SerializeFormatAscii_beginStructArray(s, c)
    [] f = "Binary" -> SerializeFormatBinary_beginStructArray(s, c)
    [] f = "Json"   -> SerializeFormatJson_beginStructArray(s, c)
    [] f = "Matlab" -> SerializeFormatMatlab_beginStructArray(s, c)
    [] f = "Python" -> SerializeFormatPython_beginStructArray(s, c)
    [] f = "Xml"    -> SerializeFormatXml_beginStructArray(s, c)

EndStructArrayOp(f, s) ==
  CASE f = "Ascii"  -> SerializeFormatAscii_endStructArray(s)
    [] f = "Binary" -> SerializeFormatBinary_endStructArray(s)
    [] f = "Json"   -> SerializeFormatJson_endStructArray(s)
    [] f = "Matlab" -> SerializeFormatMatlab_endStructArray(s)
    [] f = "Python" -> SerializeFormatPython_endStructArray(s)
    [] f = "Xml"    -> SerializeFormatXml_endStructArray(s)

BeginSeparatorOp(f, s, c) ==
  CASE f = "Ascii"  -> SerializeFormatAscii_beginStructArraySeparator(s, c)
    [] f = "Binary" -> SerializeFormatBinary_beginStructArraySeparator(s, c)
    [] f = "Json"   -> SerializeFormatJson_beginStructArraySeparator(s, c)
    [] f = "Matlab" -> SerializeFormatMatlab_beginStructArraySeparator(s, c)
    [] f = "Python" -> SerializeFormatPython_beginStructArraySeparator(s, c)
    [] f = "Xml"    -> SerializeFormatXml_beginStructArraySeparator(s, c)

EndSeparatorOp(f, s, c) ==
  CASE f = "Ascii"  -> SerializeFormatAscii_endStructArraySeparator(s, c)
    [] f = "Binary" -> SerializeFormatBinary_endStructArraySeparator(s, c)
    [] f = "Json"   -> SerializeFormatJson_endStructArraySeparator(s, c)
    [] f = "Matlab" -> SerializeFormatMatlab_endStructArraySeparator(s, c)
    [] f = "Python" -> SerializeFormatPython_endStructArraySeparator(s, c)
    [] f = "Xml"    -> SerializeFormatXml_endStructArraySeparator(s, c)

DoSerializeOp(f, s, c) ==
  CASE f = "Ascii"  -> SerializeFormatAscii_doSerialize(s, c)
    [] f = "Binary" -> SerializeFormatBinary_doSerialize(s, c)
    [] f = "Json"   -> SerializeFormatJson_doSerialize(s, c)
    [] f = "Matlab" -> SerializeFormatMatlab_doSerialize(s, c)
    [] f = "Python" -> SerializeFormatPython_doSerialize(s, c)
    [] f = "Xml"    -> SerializeFormatXml_doSerialize(s, c)

(***************************************************************************)
(* The calls of Serialize as far as the formats see them: the number of    *)
(* types that are open, whether a base type is inside another type, and    *)
(* the two calls around the elements of an array.                          *)
(***************************************************************************)
BeginTypeCall(f, s, c) ==
  LET t == [s EXCEPT !.numTypeCalls = @ + 1]
  IN  IF t.numTypeCalls > 1 /\ t.baseTypeEnable THEN BeginBaseTypeOp(f, t, c)
                                                ELSE BeginTypeOp(f, t, c)

EndTypeCall(f, s) ==
  LET t == IF s.numTypeCalls > 1 /\ s.baseTypeEnable THEN EndBaseTypeOp(f, s)
                                                     ELSE EndTypeOp(f, s)
  IN  [t EXCEPT !.numTypeCalls = @ - 1]

BeginBaseTypeCall(f, s, c) ==
  [BeginTypeCall(f, [s EXCEPT !.baseTypeEnable = TRUE], c) EXCEPT !.baseTypeEnable = FALSE]

EndBaseTypeCall(f, s) ==
  [EndTypeCall(f, [s EXCEPT !.baseTypeEnable = TRUE]) EXCEPT !.baseTypeEnable = FALSE]

DoSerialize(f, s, c) ==
  IF c.kind = "array"
    THEN EndArrayOp(f, DoSerializeOp(f, BeginArrayOp(f, s, c), c), c)
    ELSE DoSerializeOp(f, s, c)

\* A member of a base type (BaseI32_serialize() and the like): one field.
BaseType_serialize(f, s, c) ==
  EndBaseTypeCall(f, DoSerialize(f, BeginBaseTypeCall(f, s, c), c))

Do(f, s, c) ==
  CASE c.op = "beginType"       -> BeginTypeCall(f, s, c)
    [] c.op = "endType"         -> EndTypeCall(f, s)
    [] c.op = "baseType"        -> BaseType_serialize(f, s, c)
    [] c.op = "doSerialize"     -> DoSerialize(f, s, c)
    [] c.op = "beginStructArray" -> BeginStructArrayOp(f, s, c)
    [] c.op = "endStructArray"  -> EndStructArrayOp(f, s)
    [] c.op = "beginStructArraySeparator" -> BeginSeparatorOp(f, s, c)
    [] c.op = "endStructArraySeparator"   -> EndSeparatorOp(f, s, c)

-----------------------------------------------------------------------------
(***************************************************************************)
(* The serialize functions: structures whose members are fields, strings,  *)
(* arrays, base types, structures and arrays of structures.  Every name    *)
(* and every value is a number of its own.                                 *)
(***************************************************************************)
Init ==
  /\ config \in Configs
  /\ w = NewSerialize("write", <<>>, config.data)
  /\ k = NewSerialize("calc", <<>>, config.data)
  /\ r = NewSerialize("read", <<>>, config.readerData)
  /\ script = <<>> /\ open = <<>>
  /\ objects = 0 /\ start = 0
  /\ phase = "write"

Top == Last(open)

Make(c) ==
  /\ phase = "write"
  /\ w' = Do(config.format, w, c)
  /\ k' = Do(config.format, k, c)
  /\ script' = Append(script, c)
  /\ UNCHANGED <<config, r, phase>>

NewName == Len(script) + 1
Values(n) == [i \in 1 .. n |-> 10 * (Len(script) + 1) + i]

\* One more member of the innermost structure.
Filled == [open EXCEPT ![Len(open)].empty = FALSE]

InStruct == open # <<>> /\ Top.what = "struct"

\* The structures that are open.
Depth == Len(SelectSeq(open, LAMBDA x : x.what = "struct"))

\* The members that hold no further member.
Leaves == Len(SelectSeq(script, LAMBDA c : c.kind # "" \/ (c.op = "beginStructArray" /\ c.len = 0)))

BeginObject ==
  /\ open = <<>> /\ objects < MaxObjects /\ Leaves < MaxMembers
  /\ Make(Call("beginType", NewName, "T", "", 0, 0, <<>>))
  /\ open' = <<[what |-> "struct", empty |-> TRUE]>>
  /\ objects' = objects + 1 /\ start' = Len(w.out)

\* A base type is an object of its own as well.
BaseObject ==
  /\ open = <<>> /\ objects < MaxObjects /\ Leaves < MaxMembers
  /\ Make(Call("baseType", NewName, "int", "field", 1, 0, Values(1)))
  /\ objects' = objects + 1 /\ start' = Len(w.out)
  /\ UNCHANGED open

BeginMember ==
  /\ InStruct /\ Depth < MaxDepth /\ Leaves < MaxMembers
  /\ Make(Call("beginType", NewName, "T", "", 0, 0, <<>>))
  /\ open' = Append(Filled, [what |-> "struct", empty |-> TRUE])
  /\ UNCHANGED <<objects, start>>

Field ==
  /\ InStruct /\ Leaves < MaxMembers
  /\ \E op \in {"doSerialize", "baseType"} :
       Make(Call(op, NewName, "int", "field", 1, 0, Values(1)))
  /\ open' = Filled /\ UNCHANGED <<objects, start>>

StringField ==
  /\ InStruct /\ Leaves < MaxMembers
  /\ Make(Call("doSerialize", NewName, "string", "string", 1, 0, Values(1)))
  /\ open' = Filled /\ UNCHANGED <<objects, start>>

ArrayField ==
  /\ InStruct /\ Leaves < MaxMembers
  /\ \E n \in ArrayLengths :
       Make(Call("doSerialize", NewName, "int", "array", n, 0, Values(n)))
  /\ open' = Filled /\ UNCHANGED <<objects, start>>

\* STRUCT_ARRAY_SERIALIZE: the elements are structures.
BeginStructArray ==
  /\ InStruct /\ Depth < MaxDepth
  /\ \E n \in ElementCounts :
       /\ Leaves + (IF n = 0 THEN 1 ELSE n) <= MaxMembers
       /\ Make(Call("beginStructArray", NewName, "T", "", n, 0, <<>>))
       /\ open' = Append(Filled, [what |-> "structArray", name |-> NewName, len |-> n, next |-> 0])
  /\ UNCHANGED <<objects, start>>

BeginElement ==
  /\ open # <<>> /\ Top.what = "structArray" /\ Top.next < Top.len
  /\ Make(Call("beginStructArraySeparator", Top.name, "", "", Top.len, Top.next, <<>>))
  /\ open' = Append([open EXCEPT ![Len(open)].next = @ + 1],
                    [what |-> "element", name |-> Top.name, len |-> Top.len,
                     pos |-> Top.next, done |-> FALSE])
  /\ UNCHANGED <<objects, start>>

\* The element is serialized under the name of the array.
BeginElementType ==
  /\ open # <<>> /\ Top.what = "element" /\ ~Top.done
  /\ Make(Call("beginType", Top.name, "T", "", 0, 0, <<>>))
  /\ open' = Append([open EXCEPT ![Len(open)].done = TRUE], [what |-> "struct", empty |-> TRUE])
  /\ UNCHANGED <<objects, start>>

EndElement ==
  /\ open # <<>> /\ Top.what = "element" /\ Top.done
  /\ Make(Call("endStructArraySeparator", Top.name, "", "", Top.len, Top.pos, <<>>))
  /\ open' = Front(open) /\ UNCHANGED <<objects, start>>

EndStructArray ==
  /\ open # <<>> /\ Top.what = "structArray" /\ Top.next = Top.len
  /\ Make(Call("endStructArray", 0, "", "", 0, 0, <<>>))
  /\ open' = Front(open) /\ UNCHANGED <<objects, start>>

EndType ==
  /\ InStruct /\ ~Top.empty
  /\ Make(Call("endType", 0, "", "", 0, 0, <<>>))
  /\ open' = Front(open) /\ UNCHANGED <<objects, start>>

(***************************************************************************)
(* The objects are read back with the same serialize functions.            *)
(***************************************************************************)
ReadBack ==
  /\ phase = "write" /\ open = <<>> /\ objects > 0
  /\ phase' = "read"
  /\ r' = FoldLeft(LAMBDA s, c : Do(config.format, s, c), [r EXCEPT !.in = w.out], script)
  /\ UNCHANGED <<config, w, k, script, open, objects, start>>

Next == \/ BeginObject \/ BaseObject \/ BeginMember \/ Field \/ StringField \/ ArrayField
        \/ BeginStructArray \/ BeginElement \/ BeginElementType \/ EndElement
        \/ EndStructArray \/ EndType \/ ReadBack

Spec == Init /\ [][Next]_vars

-----------------------------------------------------------------------------
Written == FlattenSeq([i \in 1 .. Len(script) |-> script[i].vals])

(***************************************************************************)
(* The serializers keep their modes, and what is open is described.        *)
(***************************************************************************)
TypeOK ==
  /\ config \in Configs /\ phase \in {"write", "read"} /\ objects \in 0 .. MaxObjects
  /\ w.mode = "write" /\ k.mode = "calc" /\ r.mode = "read"
  /\ \A s \in {w, k, r} : /\ s.indentLevel \in Int /\ s.numTypeCalls \in 0 .. MaxDepth
                          /\ s.mismatch \in BOOLEAN /\ ~s.baseTypeEnable
  /\ start \in 0 .. Len(w.out)
  /\ Depth <= MaxDepth
  /\ \A i \in 1 .. Len(open) : open[i].what \in {"struct", "structArray", "element"}

(***************************************************************************)
(* What was written in a format is read back from it: every value, in      *)
(* order and in the byte order of the machine that reads; every pattern    *)
(* matches to its end, although the formats look at no scan's result; and  *)
(* no text is left over.                                                   *)
(***************************************************************************)
RoundTrip ==
  phase = "read" => /\ r.got = [i \in 1 .. Len(Written) |-> Value(Written[i])]
                    /\ ~r.mismatch
                    /\ r.in = <<>>

(***************************************************************************)
(* The brackets and tags of an object's text nest, and all are closed when *)
(* the object ends.  The Python format remembers the indentation of one    *)
(* element only, so an array of structures in an element of another one is *)
(* left out for it: there the end of the outer element is not recognized.  *)
(***************************************************************************)
Pairs == {<<Lit("{"), Lit("}")>>, <<Lit("["), Lit("]")>>, <<Lit("("), Lit(")")>>,
          <<Lit("<struct"), Lit("</struct>")>>, <<Lit("<array"), Lit("</array>")>>,
          <<Lit("<element"), Lit("</element>")>>, <<Lit("<field"), Lit("</field>")>>}
Openers == {p[1] : p \in Pairs}
Closers == {p[2] : p \in Pairs}

\* The brackets that are open after the text; "wrong" when one closes another kind.
Unclosed(text) ==
  LET step(stack, token) ==
        CASE token \in Openers -> Append(stack, token)
          [] token \notin Openers \cup Closers -> stack
          [] stack # <<>> /\ token \in Closers /\ <<Last(stack), token>> \in Pairs -> Front(stack)
          [] OTHER -> Append(stack, Lit("wrong"))
  IN  FoldLeft(step, <<>>, SelectSeq(text, LAMBDA token : token[1] = "lit"))

\* How many arrays of structures enclose the innermost one that was begun.
ArrayDepth ==
  LET step(d, c) ==
        CASE c.op = "beginStructArray" -> [now |-> d.now + 1, max |-> IF d.now + 1 > d.max THEN d.now + 1 ELSE d.max]
          [] c.op = "endStructArray"   -> [d EXCEPT !.now = @ - 1]
          [] OTHER -> d
  IN  FoldLeft(step, [now |-> 0, max |-> 0], script).max

BracketsNest ==
  \/ config.format = "Python" /\ ArrayDepth > 1
  \/ open = <<>> => Unclosed(w.out) = <<>>

(***************************************************************************)
(* A JSON text has a comma between two members and none elsewhere: the     *)
(* format decides by "isFirst", which each of its operations sets.  An     *)
(* empty array of structures leaves it set, so that the comma behind it    *)
(* is missing.                                                             *)
(***************************************************************************)
JsonMayFollow(a, b) ==
  CASE a = Lit("{")  -> b[1] = "name"
    [] a = Lit("[")  -> b \in {Lit("]"), Lit("{")} \/ b[1] = "value"
    [] a = Lit(":")  -> b \in {Lit("{"), Lit("[")} \/ b[1] = "value"
    [] a = Lit(",")  -> b = Lit("{") \/ b[1] \in {"name", "value"}
    [] a[1] = "name" -> b = Lit(":")
    [] OTHER         -> b \in {Lit(","), Lit("}"), Lit("]")}

CommasBetweenMembers ==
  \/ config.format # "Json"
  \/ \E i \in 1 .. Len(script) : script[i].op = "beginStructArray" /\ script[i].len = 0
  \/ \A i \in start + 1 .. Len(w.out) - 1 : JsonMayFollow(w.out[i], w.out[i + 1])

(***************************************************************************)
(* What is counted in CALC mode is what is written in WRITE mode.  The     *)
(* JSON format counts arrays differently.                                  *)
(***************************************************************************)
CalcCountsWhatIsWritten ==
  \/ config.format = "Json" /\ \E i \in 1 .. Len(script) : script[i].kind = "array"
  \/ k.out = w.out

(***************************************************************************)
(* The next object is serialized as the first one was: the formats undo    *)
(* what they keep, whatever was in the object.  (The Xml format keeps the  *)
(* flag of the last type, which the next one overwrites.)                  *)
(***************************************************************************)
EveryObjectStartsFresh ==
  \A s \in {w} \cup (IF phase = "read" THEN {r} ELSE {}) :
    open = <<>> =>
      /\ s.indentLevel = 0 /\ s.numTypeCalls = 0
      /\ config.format # "Xml" => s.data = IF s.mode = "read" THEN config.readerData
                                                              ELSE config.data

(* A text of each format is well formed, as long as was computed, and read   *)
(* back as the calls that wrote it.                                          *)
TextsAreFaithful ==
    /\ TypeOK
    /\ RoundTrip
    /\ BracketsNest
    /\ CommasBetweenMembers
    /\ CalcCountsWhatIsWritten
    /\ EveryObjectStartsFresh
=============================================================================
