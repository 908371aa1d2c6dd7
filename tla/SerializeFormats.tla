-------------------------- MODULE SerializeFormats --------------------------
(***************************************************************************)
(* The serialization formats (SerializeFormats.c): first what every format *)
(* does to its stream, then the formats one after the other, an operator   *)
(* per format operation, as the code has them in one file.                 *)
(*                                                                         *)
(* What a serialization format does to its stream: it prints pieces of    *)
(* text in WRITE and CALC mode and scans them back in READ mode.          *)
(*                                                                         *)
(* A text is a sequence of tokens: a literal, the name of a field, the     *)
(* name of a type, a number or a value.  Blanks, line breaks and the       *)
(* indentation are no tokens: IOChannel_scanf() skips blanks before each   *)
(* literal and before each conversion.                                     *)
(*                                                                         *)
(* A serializer is a record:                                               *)
(*   mode            "write", "calc" or "read"                             *)
(*   out             what was printed (in CALC mode: what was counted)     *)
(*   in              what is left to be scanned                            *)
(*   got             the values scanned, in order                          *)
(*   mismatch        some scan stopped before the end of its pattern; the  *)
(*                   formats ignore the result of Serialize_scanf(), so it *)
(*                   has no other effect                                   *)
(*   indentLevel, numTypeCalls, baseTypeEnable   fields of Serialize       *)
(*   data            what the current format keeps (its "options")         *)
(***************************************************************************)
EXTENDS Integers, Sequences, SequencesExt

CONSTANTS MaxNesting,        \* SERIALIZE_STRUCTURE_MAXNESTING
          ColumnWrap         \* SERIALIZE_COLUMNWRAP: elements on a line

Lit(x)    == <<"lit", x>>
Name(n)   == <<"name", n>>
Type(t)   == <<"type", t>>
Num(n)    == <<"num", n>>
Value(v)  == <<"value", v>>

AnyName   == <<"any name", 0>>     \* the conversion %s applied to a name
GetValue  == <<"get value", 0>>    \* the conversion of a value

Fits(pattern, token) == \/ pattern = token
                        \/ pattern = AnyName /\ token[1] = "name"
                        \/ pattern = GetValue /\ token[1] = "value"

(***************************************************************************)
(* IOChannel_scanFormatting(): piece by piece until one does not match,    *)
(* which is put back; what follows it in the pattern is not scanned.       *)
(***************************************************************************)
MatchLength(pattern, text) ==
  CHOOSE n \in 0 .. Len(pattern) :
    /\ n <= Len(text)
    /\ \A i \in 1 .. n : Fits(pattern[i], text[i])
    /\ \/ n = Len(pattern)
       \/ n = Len(text)
       \/ ~Fits(pattern[n + 1], text[n + 1])

IsValue(token) == token[1] = "value"

Scan(s, pattern) ==
  LET n == MatchLength(pattern, s.in)
  IN  [s EXCEPT !.in = SubSeq(@, n + 1, Len(@)),
                !.got = @ \o SelectSeq(SubSeq(s.in, 1, n), IsValue),
                !.mismatch = @ \/ n < Len(pattern)]

Serialize_scanf(s, pattern) == Scan(s, pattern)

\* Nothing can be printed on a stream that was opened for reading.
Serialize_printf(s, text) ==
  IF s.mode = "read" THEN [s EXCEPT !.mismatch = TRUE]
                     ELSE [s EXCEPT !.out = @ \o text]

\* A comma is taken if it is there (IOChannel_getc, IOChannel_unget).
ScanOptionalComma(s) ==
  IF s.in # <<>> /\ Head(s.in) = Lit(",") THEN [s EXCEPT !.in = Tail(@)] ELSE s

\* The loop of a format over the elements of an array.
EachElement(s, len, Element(_, _)) ==
  LET upTo[i \in 0 .. len] == IF i = 0 THEN s ELSE Element(upTo[i - 1], i)
  IN  upTo[len]

Serialize_isReading(s) == s.mode = "read"
Serialize_isWriting(s) == s.mode \in {"write", "calc"}
Serialize_getBeginTypeNestingLevel(s) == s.numTypeCalls

IndentIncr(s) == [s EXCEPT !.indentLevel = @ + 1]
IndentDecr(s) == [s EXCEPT !.indentLevel = @ - 1]
SetData(s, data) == [s EXCEPT !.data = data]

NewSerialize(mode, in, data) ==
  [mode |-> mode, out |-> <<>>, in |-> in, got |-> <<>>, mismatch |-> FALSE,
   indentLevel |-> 0, numTypeCalls |-> 0, baseTypeEnable |-> FALSE, data |-> data]

(***************************************************************************)
(* A call of a serialize function:                                         *)
(*   op                the function (Serialize_<op>)                       *)
(*   name, type        the names it gets                                   *)
(*   kind              of doSerialize: "field", "string" or "array"        *)
(*   len, pos          number of elements, position of a separator         *)
(*   vals              the values doSerialize has to write                 *)
(***************************************************************************)
Call(op, name, type, kind, len, pos, vals) ==
  [op |-> op, name |-> name, type |-> type, kind |-> kind, len |-> len,
   pos |-> pos, vals |-> vals]

-----------------------------------------------------------------------------
(***************************************************************************)
(* The format "Ascii": C-like text, one operator per format operation.     *)
(* With the option WITH_TYPE every name is preceded by its type.           *)
(***************************************************************************)

SerializeFormatAsciiOptions_init == [withType |-> FALSE]

\* The options string is "WITH_TYPE=TRUE" or "WITH_TYPE=FALSE".
SerializeFormatAsciiOptions_set(data, withType) == [data EXCEPT !.withType = withType]

SerializeFormatAscii_isWithType(s) == s.data.withType

Tagged(s, type, text) ==
  IF SerializeFormatAscii_isWithType(s) THEN <<Type(type)>> \o text ELSE text

SerializeFormatAscii_beginType(s, c) ==
  LET struct == IF SerializeFormatAscii_isWithType(s) THEN <<Lit("struct")>> ELSE <<>>
  IN  IF Serialize_isReading(s)
        THEN Serialize_scanf(s, struct \o Tagged(s, c.type, <<AnyName, Lit("="), Lit("{")>>))
        ELSE IndentIncr(Serialize_printf(s,
               struct \o Tagged(s, c.type, <<Name(c.name), Lit("="), Lit("{")>>)))

SerializeFormatAscii_endType(s) ==
  IF Serialize_isReading(s) THEN Serialize_scanf(s, <<Lit("}")>>)
                            ELSE Serialize_printf(IndentDecr(s), <<Lit("}")>>)

SerializeFormatAscii_beginBaseType(s, c) == s
SerializeFormatAscii_endBaseType(s) == s

ArrayHead(s, c) == Tagged(s, c.type, <<Name(c.name), Lit("["), Num(c.len), Lit("]"), Lit("=")>>)

SerializeFormatAscii_beginArray(s, c) ==
  IF Serialize_isReading(s) THEN Serialize_scanf(s, ArrayHead(s, c))
                            ELSE IndentIncr(Serialize_printf(s, ArrayHead(s, c)))

SerializeFormatAscii_endArray(s, c) ==
  IF Serialize_isReading(s) THEN s ELSE IndentDecr(s)

SerializeFormatAscii_beginStructArray(s, c) ==
  LET text == ArrayHead(s, c) \o <<Lit("{")>>
  IN  IF Serialize_isReading(s) THEN Serialize_scanf(s, text)
                                ELSE IndentIncr(Serialize_printf(s, text))

SerializeFormatAscii_endStructArray(s) ==
  IF Serialize_isReading(s) THEN Serialize_scanf(s, <<Lit("}")>>)
                            ELSE Serialize_printf(IndentDecr(s), <<Lit("}")>>)

SerializeFormatAscii_beginStructArraySeparator(s, c) == s
SerializeFormatAscii_endStructArraySeparator(s, c) == s

SerializeFormatAscii_doSerializeField(s, c) ==
  IF Serialize_isReading(s)
    THEN Serialize_scanf(s, Tagged(s, c.type, <<Name(c.name), Lit("="), GetValue, Lit(";")>>))
    ELSE Serialize_printf(s, Tagged(s, c.type,
                               <<Name(c.name), Lit("="), Value(c.vals[1]), Lit(";")>>))

SerializeFormatAscii_doSerializeArrayElement(s, c, index) ==
  LET last == IF index = c.len THEN <<Lit(";")>> ELSE <<>>
  IN  IF Serialize_isReading(s) THEN Serialize_scanf(s, <<GetValue>> \o last)
                                ELSE Serialize_printf(s, <<Value(c.vals[index])>> \o last)

\* "field" is tested before "string", so that a string is written as a field.
SerializeFormatAscii_doSerialize(s, c) ==
  IF c.kind = "array"
    THEN EachElement(s, c.len,
           LAMBDA t, i : SerializeFormatAscii_doSerializeArrayElement(t, c, i))
    ELSE SerializeFormatAscii_doSerializeField(s, c)

-----------------------------------------------------------------------------
(***************************************************************************)
(* The format "Binary": the bytes of the values and nothing else.  A value *)
(* of more than one byte is on the stream in the byte order of the option  *)
(* (isLittleEndian); the code swaps it where that is not the order of the  *)
(* machine (machineIsLittle).  In memory a value is <<"value", v>> when    *)
(* the machine sees v, and <<"swapped", v>> when its bytes are reversed.   *)
(***************************************************************************)

SerializeFormatBinaryOptions_init(machineIsLittle) ==
  [isLittleEndian |-> machineIsLittle, machineIsLittle |-> machineIsLittle]

\* "LITTLE_ENDIAN", "BIG_ENDIAN", no option (NULL), or any other string.
SerializeFormatBinaryOptions_set(data, options, isWriting) ==
  [data EXCEPT !.isLittleEndian =
     CASE options = "LITTLE_ENDIAN" -> TRUE
       [] options \in {"BIG_ENDIAN", "NULL"} -> FALSE
       [] OTHER -> isWriting /\ data.machineIsLittle]

\* What the header of the object says about its byte order.
HeaderOpts(data) == IF data.isLittleEndian THEN "LITTLE_ENDIAN" ELSE "BIG_ENDIAN"

CheckEndianness(s) == s.data.isLittleEndian # s.data.machineIsLittle

SerializeFormatBinary_swapBuffer(kind) == IF kind = "value" THEN "swapped" ELSE "value"

(***************************************************************************)
(* On the stream a value is <<"value", v, order>>: its bytes, read in the  *)
(* order "order" (TRUE: little endian), are v.                             *)
(***************************************************************************)
Deployed(s, kind, v) ==
  <<"value", v, IF kind = "value" THEN s.data.machineIsLittle ELSE ~s.data.machineIsLittle>>

WriteGeneric(s, v) ==
  LET kind == IF CheckEndianness(s) THEN SerializeFormatBinary_swapBuffer("value") ELSE "value"
  IN  Serialize_printf(s, <<Deployed(s, kind, v)>>)

\* At the end of the stream the variable keeps its value.
ReadGeneric(s) ==
  IF s.in = <<>> THEN [s EXCEPT !.mismatch = TRUE]
  ELSE LET bytes == Head(s.in)
           read  == IF bytes[3] = s.data.machineIsLittle THEN "value" ELSE "swapped"
           kind  == IF CheckEndianness(s) THEN SerializeFormatBinary_swapBuffer(read) ELSE read
       IN  [s EXCEPT !.in = Tail(@), !.got = Append(@, <<kind, bytes[2]>>)]

Generic(s, v) == IF Serialize_isReading(s) THEN ReadGeneric(s) ELSE WriteGeneric(s, v)

\* Characters have no byte order.
Characters(s, v) ==
  IF Serialize_isReading(s)
    THEN IF s.in = <<>> THEN [s EXCEPT !.mismatch = TRUE]
         ELSE [s EXCEPT !.in = Tail(@), !.got = Append(@, <<"value", Head(s.in)[2]>>)]
    ELSE Serialize_printf(s, <<<<"value", v, TRUE>>>>)

\* A string is preceded by its length, which has a byte order.
StringLength == 0

SerializeFormatBinary_doSerialize(s, c) ==
  CASE c.kind = "string" ->
         LET t == Generic(s, StringLength)
             known == Serialize_isWriting(s) \/ (t.got # <<>> /\ t.got[Len(t.got)] = Value(StringLength))
         IN  IF ~known THEN [t EXCEPT !.mismatch = TRUE]
             ELSE IF Serialize_isWriting(s) THEN Characters(t, c.vals[1])
             ELSE Characters([t EXCEPT !.got = SubSeq(@, 1, Len(@) - 1)], c.vals[1])
    [] OTHER -> EachElement(s, c.len, LAMBDA t, i : Generic(t, c.vals[i]))

SerializeFormatBinary_beginType(s, c) == s
SerializeFormatBinary_endType(s) == s
SerializeFormatBinary_beginBaseType(s, c) == s
SerializeFormatBinary_endBaseType(s) == s
SerializeFormatBinary_beginArray(s, c) == s
SerializeFormatBinary_endArray(s, c) == s
SerializeFormatBinary_beginStructArray(s, c) == s
SerializeFormatBinary_endStructArray(s) == s
SerializeFormatBinary_beginStructArraySeparator(s, c) == s
SerializeFormatBinary_endStructArraySeparator(s, c) == s

-----------------------------------------------------------------------------
(***************************************************************************)
(* The format "Json", the default one, one operator per format operation.  *)
(* "isFirst" says that the next member is the first of its object, so that *)
(* no comma precedes it; "beginStructArrayElem" that the next type begun   *)
(* is the element of an array, which has no name.                          *)
(***************************************************************************)

SerializeFormatJsonOptions_init == [isFirst |-> TRUE, beginStructArrayElem |-> FALSE]

SetFirst(s, isFirst) == [s EXCEPT !.data.isFirst = isFirst]
CommaUnlessFirst(s)  == IF s.data.isFirst THEN s ELSE Serialize_printf(s, <<Lit(",")>>)

SerializeFormatJson_beginType(s, c) ==
  IF s.data.beginStructArrayElem
    THEN [s EXCEPT !.data.beginStructArrayElem = FALSE]
  ELSE IF Serialize_isReading(s)
    THEN LET root == IF s.numTypeCalls = 1 THEN <<Lit("{")>> ELSE <<>>
         IN  Serialize_scanf(SetFirst(s, TRUE), root \o <<AnyName, Lit(":"), Lit("{")>>)
  ELSE LET t == SetFirst(CommaUnlessFirst(s), TRUE)
           u == IF t.indentLevel = 0 THEN IndentIncr(Serialize_printf(t, <<Lit("{")>>)) ELSE t
       IN  IndentIncr(Serialize_printf(u, <<Name(c.name), Lit(":"), Lit("{")>>))

\* The root is recognized by the indentation when writing, by the nesting when reading.
SerializeFormatJson_endType(s) ==
  IF Serialize_isReading(s)
    THEN IF s.numTypeCalls = 1 THEN Serialize_scanf(s, <<Lit("}"), Lit("}")>>)
                               ELSE ScanOptionalComma(Serialize_scanf(s, <<Lit("}")>>))
    ELSE LET t == IndentDecr(Serialize_printf(s, <<Lit("}")>>))
         IN  IF t.indentLevel = 1
               THEN SetFirst(IndentDecr(Serialize_printf(t, <<Lit("}")>>)), TRUE)
               ELSE t

SerializeFormatJson_beginBaseType(s, c) == s
SerializeFormatJson_endBaseType(s) == s

SerializeFormatJson_beginArray(s, c) ==
  LET head == <<Name(c.name), Lit(":"), Lit("[")>>
      t    == CommaUnlessFirst(s)
  IN  IF Serialize_isReading(s)
        THEN Serialize_scanf(SetFirst(t, TRUE), head)
        ELSE IndentIncr(Serialize_printf(SetFirst(t, FALSE), head))

\* In CALC mode nothing is done: neither the bracket nor the indentation.
SerializeFormatJson_endArray(s, c) ==
  CASE s.mode = "read"  -> ScanOptionalComma(Serialize_scanf(s, <<Lit("]")>>))
    [] s.mode = "write" -> Serialize_printf(IndentDecr(s), <<Lit("]")>>)
    [] s.mode = "calc"  -> s

SerializeFormatJson_beginStructArray(s, c) ==
  LET head == <<Name(c.name), Lit(":"), Lit("[")>>
  IN  IF Serialize_isReading(s)
        THEN Serialize_scanf(s, head)
        ELSE Serialize_printf(SetFirst(CommaUnlessFirst(s), TRUE), head)

SerializeFormatJson_endStructArray(s) ==
  IF Serialize_isReading(s) THEN ScanOptionalComma(Serialize_scanf(s, <<Lit("]")>>))
                            ELSE Serialize_printf(s, <<Lit("]")>>)

\* Mutant: "isFirst" is left as it is.
SeparatorKeepingFirst(s, c) ==
  LET t     == [s EXCEPT !.data.beginStructArrayElem = TRUE]
      comma == IF c.pos # 0 THEN <<Lit(",")>> ELSE <<>>
  IN  IF Serialize_isReading(s)
        THEN Serialize_scanf(t, <<Lit("{")>>)
        ELSE IndentIncr(Serialize_printf(t, comma \o <<Lit("{")>>))

SerializeFormatJson_beginStructArraySeparator(s, c) ==
  LET t == SetData(s, [isFirst |-> TRUE, beginStructArrayElem |-> TRUE])
      comma == IF c.pos # 0 THEN <<Lit(",")>> ELSE <<>>
  IN  IF Serialize_isReading(s)
        THEN Serialize_scanf(t, <<Lit("{")>>)
        ELSE IndentIncr(Serialize_printf(t, comma \o <<Lit("{")>>))

SerializeFormatJson_endStructArraySeparator(s, c) == s

SerializeFormatJson_doSerializeField(s, c) ==
  IF Serialize_isReading(s)
    THEN ScanOptionalComma(Serialize_scanf(s, <<Name(c.name), Lit(":"), GetValue>>))
    ELSE Serialize_printf(SetFirst(CommaUnlessFirst(s), FALSE),
                          <<Name(c.name), Lit(":"), Value(c.vals[1])>>)

SerializeFormatJson_doSerializeArrayElement(s, c, index) ==
  LET comma == IF index = c.len THEN <<>> ELSE <<Lit(",")>>
  IN  IF Serialize_isReading(s) THEN Serialize_scanf(s, <<GetValue>> \o comma)
                                ELSE Serialize_printf(s, <<Value(c.vals[index])>> \o comma)

\* "field" is tested before "string", so that a string is written as a field.
SerializeFormatJson_doSerialize(s, c) ==
  IF c.kind = "array"
    THEN EachElement(s, c.len,
           LAMBDA t, i : SerializeFormatJson_doSerializeArrayElement(t, c, i))
    ELSE SerializeFormatJson_doSerializeField(s, c)

-----------------------------------------------------------------------------
(***************************************************************************)
(* The format "Matlab": one assignment per field, to a name that a prefix  *)
(* of the enclosing structures and array elements qualifies.  The prefix   *)
(* is a sequence of names here (prefixBuffer, its length nestingLevel).    *)
(***************************************************************************)

SerializeFormatMatlabOptions_init ==
  [prefix |-> <<>>, structNestingLevel |-> 0,
   isArrayOfStructElement |-> [level \in 0 .. MaxNesting - 1 |-> FALSE]]

ElementName(n, index) == <<"element", n, index>>

IsElementArray(s) == s.data.isArrayOfStructElement[s.data.structNestingLevel]
SetElementArray(s, is) ==
  [s EXCEPT !.data.isArrayOfStructElement[s.data.structNestingLevel] = is]

SerializeFormatMatlab_appendPrefix(s, part) ==
  [s EXCEPT !.data.prefix = Append(@, part)]

\* ANY_REQUIRE stops the process when there is no prefix to remove.
SerializeFormatMatlab_removePrefix(s) ==
  IF s.data.prefix = <<>> THEN [s EXCEPT !.mismatch = TRUE]
                          ELSE [s EXCEPT !.data.prefix = Front(@)]

SerializeFormatMatlab_beginType(s, c) ==
  LET t == IF IsElementArray(s) THEN s
           ELSE SerializeFormatMatlab_appendPrefix(s, Name(c.name))
  IN  SetElementArray([t EXCEPT !.data.structNestingLevel = @ + 1], FALSE)

SerializeFormatMatlab_endType(s) ==
  LET t == [s EXCEPT !.data.structNestingLevel = @ - 1]
  IN  IF IsElementArray(t) THEN t ELSE SerializeFormatMatlab_removePrefix(t)

SerializeFormatMatlab_beginBaseType(s, c) == s
SerializeFormatMatlab_endBaseType(s) == s
SerializeFormatMatlab_beginArray(s, c) == s
SerializeFormatMatlab_endArray(s, c) == s

SerializeFormatMatlab_beginStructArray(s, c) == SetElementArray(s, TRUE)

SerializeFormatMatlab_endStructArray(s) == SetElementArray(s, FALSE)

\* The index of the previous element gives way to the one of this element.
SerializeFormatMatlab_beginStructArraySeparator(s, c) ==
  LET t == IF c.pos = 0 THEN s ELSE SerializeFormatMatlab_removePrefix(s)
  IN  SerializeFormatMatlab_appendPrefix(t, ElementName(c.name, c.pos + 1))

SerializeFormatMatlab_endStructArraySeparator(s, c) ==
  IF c.pos = c.len - 1 THEN SerializeFormatMatlab_removePrefix(s) ELSE s

\* One case per type: a value is scanned as a double, or printed in the type's own format.
MatlabValues(s, c) ==
  [i \in 1 .. c.len |-> IF Serialize_isReading(s) THEN GetValue ELSE Value(c.vals[i])]

MatlabClose(c) == (IF c.kind = "array" THEN <<Lit("]")>> ELSE <<>>) \o <<Lit(";")>>

SerializeFormatMatlab_doSerialize(s, c) ==
  LET open == IF c.kind = "array" THEN <<Lit("[")>> ELSE <<>>
      line == s.data.prefix \o <<Name(c.name), Lit("=")>>
                \o open \o MatlabValues(s, c) \o MatlabClose(c)
  IN  IF Serialize_isReading(s) THEN Serialize_scanf(s, line) ELSE Serialize_printf(s, line)

-----------------------------------------------------------------------------
(***************************************************************************)
(* The format "Python": structures, arrays and arrays of structures as     *)
(* tuples, lists or dictionaries, with or without the key of each member;  *)
(* the options choose.  Every line but the last ends with a backslash.     *)
(***************************************************************************)

(***************************************************************************)
(* type, arrayType, structArrayType: what structures, arrays and arrays    *)
(* of structures are.                                                      *)
(***************************************************************************)
Shapes == {"tuple", "list", "dict", "tuple without key", "list without key"}

SerializeFormatPythonOptions_init ==
  [type |-> "list", arrayType |-> "list", structArrayType |-> "list",
   beginStructArrayElem |-> FALSE, endStructArrayLevel |-> -1]

StructOption(data, shape)      == [data EXCEPT !.type = shape]
ArrayOption(data, shape)       == [data EXCEPT !.arrayType = shape]
StructArrayOption(data, shape) == [data EXCEPT !.structArrayType = shape]

\* One option after the other, each with a value that is valid for it.
SerializeFormatPythonOptions_set(data, type, arrayType, structArrayType) ==
  StructArrayOption(ArrayOption(StructOption(data, type), arrayType), structArrayType)

IsTuple(shape) == shape \in {"tuple", "tuple without key"}
IsList(shape)  == shape \in {"list", "list without key"}
HasKey(shape)  == shape \in Shapes \ {"tuple without key", "list without key"}

Open(shape)  == IF IsTuple(shape) THEN <<Lit("(")>> ELSE IF IsList(shape) THEN <<Lit("[")>>
                                                    ELSE <<Lit("{")>>
Close(shape) == IF IsTuple(shape) THEN <<Lit(")")>> ELSE IF IsList(shape) THEN <<Lit("]")>>
                                                    ELSE <<Lit("}")>>

\* A key and its value are a pair, or an entry of a dictionary.
OpenKey(shape, key) == CASE shape \in {"tuple", "list"} -> <<Lit("("), key, Lit(",")>>
                         [] shape = "dict" -> <<key, Lit(":")>>
                         [] OTHER -> <<>>
CloseKey(shape)     == IF shape \in {"tuple", "list"} THEN <<Lit(")")>> ELSE <<>>

NewLine == <<Lit("\\")>>
Comma   == <<Lit(",")>>

(***************************************************************************)
(* What is scanned is what is printed.  A key that was scanned is compared *)
(* with the expected one, and the process stops when they differ.          *)
(***************************************************************************)
Transfer(s, text) == IF Serialize_isReading(s) THEN Serialize_scanf(s, text)
                                               ELSE Serialize_printf(s, text)

SerializeFormatPython_beginType(s, c) ==
  LET root == Serialize_getBeginTypeNestingLevel(s) = 1 \/ s.data.beginStructArrayElem
      key  == IF root THEN <<>> ELSE OpenKey(s.data.type, Name(c.name))
      t    == Transfer(s, key \o Open(s.data.type) \o NewLine)
  IN  IndentIncr(IF root THEN [t EXCEPT !.data.beginStructArrayElem = FALSE] ELSE t)

\* The end of an element is recognized by its indentation.
SerializeFormatPython_endType(s) ==
  LET t       == IndentDecr(s)
      element == t.indentLevel = t.data.endStructArrayLevel
      after   == IF element THEN Comma \o NewLine ELSE <<>>
  IN  IF Serialize_getBeginTypeNestingLevel(s) = 1 \/ element
        THEN [Transfer(t, Close(t.data.type) \o after) EXCEPT !.data.endStructArrayLevel = -1]
        ELSE Transfer(t, Close(t.data.type) \o CloseKey(t.data.type) \o Comma \o NewLine)

SerializeFormatPython_beginBaseType(s, c) == s
SerializeFormatPython_endBaseType(s) == s

SerializeFormatPython_beginArray(s, c) ==
  IndentIncr(Transfer(s, OpenKey(s.data.type, Name(c.name)) \o Open(s.data.arrayType)))

SerializeFormatPython_endArray(s, c) ==
  Transfer(IndentDecr(s), NewLine \o Close(s.data.arrayType) \o CloseKey(s.data.type)
                            \o Comma \o NewLine)

SerializeFormatPython_beginStructArray(s, c) ==
  IndentIncr(Transfer(s, OpenKey(s.data.type, Name(c.name))
                           \o Open(s.data.structArrayType) \o NewLine))

SerializeFormatPython_endStructArray(s) ==
  Transfer(IndentDecr(s), Close(s.data.structArrayType) \o CloseKey(s.data.type)
                            \o Comma \o NewLine)

\* The indentation of the element is remembered for SerializeFormatPython_endType.
SerializeFormatPython_beginStructArraySeparator(s, c) ==
  LET shape == s.data.structArrayType
      t     == IF HasKey(shape)
                 THEN IndentIncr(Transfer(s, OpenKey(shape, Num(c.pos)) \o NewLine))
                 ELSE s
  IN  [t EXCEPT !.data.beginStructArrayElem = TRUE, !.data.endStructArrayLevel = t.indentLevel]

SerializeFormatPython_endStructArraySeparator(s, c) ==
  LET shape == s.data.structArrayType
      t     == IF HasKey(shape) THEN IndentDecr(s) ELSE s
  IN  IF shape \in {"tuple", "list"} THEN Transfer(t, CloseKey(shape) \o Comma \o NewLine) ELSE t

ValueOf(s, v) == IF Serialize_isReading(s) THEN <<GetValue>> ELSE <<Value(v)>>

SerializeFormatPython_doSerializeField(s, c) ==
  Transfer(s, OpenKey(s.data.type, Name(c.name)) \o ValueOf(s, c.vals[1])
                \o CloseKey(s.data.type) \o Comma \o NewLine)

SerializeFormatPython_doSerializeString(s, c) ==
  Transfer(s, OpenKey(s.data.type, Name(c.name)) \o ValueOf(s, c.vals[1])
                \o CloseKey(s.data.type) \o Comma \o NewLine)

SerializeFormatPython_doSerializeArrayElement(s, c, index) ==
  LET shape == s.data.arrayType
      wrap  == IF (index - 1) % ColumnWrap = 0 THEN NewLine ELSE <<>>
  IN  Transfer(s, wrap \o OpenKey(shape, Num(index - 1)) \o ValueOf(s, c.vals[index])
                    \o CloseKey(shape) \o Comma)

SerializeFormatPython_doSerialize(s, c) ==
  CASE c.kind = "string" -> SerializeFormatPython_doSerializeString(s, c)
    [] c.kind = "field"  -> SerializeFormatPython_doSerializeField(s, c)
    [] c.kind = "array"  -> EachElement(s, c.len,
         LAMBDA t, i : SerializeFormatPython_doSerializeArrayElement(t, c, i))

-----------------------------------------------------------------------------
(***************************************************************************)
(* The format "Xml", one operator per format operation.  A tag is its      *)
(* opening word, its attributes and its closing bracket.                   *)
(***************************************************************************)

SerializeFormatXmlOptions_init == [baseTypeEnable |-> FALSE]

KeepBaseTypeEnable(s) == SetData(s, [baseTypeEnable |-> s.baseTypeEnable])

SerializeFormatXml_beginType(s, c) ==
  LET t == KeepBaseTypeEnable(s)
  IN  IF Serialize_isReading(s)
        THEN Serialize_scanf(t, <<Lit("<struct"), Type(c.type), AnyName, Lit(">")>>)
        ELSE IndentIncr(Serialize_printf(t,
               <<Lit("<struct"), Type(c.type), Name(c.name), Lit(">")>>))

SerializeFormatXml_endType(s) ==
  KeepBaseTypeEnable(IF Serialize_isReading(s)
                       THEN Serialize_scanf(s, <<Lit("</struct>")>>)
                       ELSE Serialize_printf(IndentDecr(s), <<Lit("</struct>")>>))

SerializeFormatXml_beginBaseType(s, c) == KeepBaseTypeEnable(s)
SerializeFormatXml_endBaseType(s) == s

ArrayTag(c) == <<Lit("<array"), Type(c.type), Name(c.name), Num(c.len), Lit(">")>>

SerializeFormatXml_beginArray(s, c) ==
  IF Serialize_isReading(s) THEN Serialize_scanf(s, ArrayTag(c))
                            ELSE IndentIncr(Serialize_printf(s, ArrayTag(c)))

SerializeFormatXml_endArray(s, c) ==
  IF Serialize_isReading(s) THEN Serialize_scanf(s, <<Lit("</array>")>>)
                            ELSE Serialize_printf(IndentDecr(s), <<Lit("</array>")>>)

SerializeFormatXml_beginStructArray(s, c) ==
  IF Serialize_isReading(s) THEN Serialize_scanf(s, ArrayTag(c))
                            ELSE IndentIncr(Serialize_printf(s, ArrayTag(c)))

SerializeFormatXml_endStructArray(s) ==
  IF Serialize_isReading(s) THEN Serialize_scanf(s, <<Lit("</array>")>>)
                            ELSE Serialize_printf(IndentDecr(s), <<Lit("</array>")>>)

ElementTag(position) == <<Lit("<element"), Num(position), Lit(">")>>

SerializeFormatXml_beginStructArraySeparator(s, c) ==
  IF Serialize_isReading(s) THEN Serialize_scanf(s, ElementTag(c.pos))
                            ELSE IndentIncr(Serialize_printf(s, ElementTag(c.pos)))

SerializeFormatXml_endStructArraySeparator(s, c) ==
  IF Serialize_isReading(s) THEN Serialize_scanf(s, <<Lit("</element>")>>)
                            ELSE Serialize_printf(IndentDecr(s), <<Lit("</element>")>>)

\* Inside a base type the name of the field is not compared.
SerializeFormatXml_doSerializeField(s, c) ==
  LET name == IF s.data.baseTypeEnable THEN AnyName ELSE Name(c.name)
  IN  IF Serialize_isReading(s)
        THEN Serialize_scanf(s, <<Lit("<field"), Type(c.type), name, Lit(">"), GetValue,
                                  Lit("</field>")>>)
        ELSE Serialize_printf(s, <<Lit("<field"), Type(c.type), Name(c.name), Lit(">"),
                                   Value(c.vals[1]), Lit("</field>")>>)

\* The value is unescaped up to the "<" of the closing tag (see SerializeValues).
SerializeFormatXml_doSerializeString(s, c) ==
  LET tag == <<Lit("<field"), Type("string"), Name(c.name), Lit(">")>>
  IN  IF Serialize_isReading(s)
        THEN Serialize_scanf(s, tag \o <<GetValue, Lit("</field>")>>)
        ELSE Serialize_printf(s, tag \o <<Value(c.vals[1]), Lit("</field>")>>)

SerializeFormatXml_doSerializeArrayElement(s, c, index) ==
  IF Serialize_isReading(s)
    THEN Serialize_scanf(s, ElementTag(index - 1) \o <<GetValue, Lit("</element>")>>)
    ELSE Serialize_printf(s, ElementTag(index - 1) \o <<Value(c.vals[index]), Lit("</element>")>>)

SerializeFormatXml_doSerialize(s, c) ==
  CASE c.kind = "string" -> SerializeFormatXml_doSerializeString(s, c)
    [] c.kind = "field"  -> SerializeFormatXml_doSerializeField(s, c)
    [] c.kind = "array"  -> EachElement(s, c.len,
         LAMBDA t, i : SerializeFormatXml_doSerializeArrayElement(t, c, i))
=============================================================================
