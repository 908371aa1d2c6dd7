-------------------------- MODULE SerializeValues --------------------------
(***************************************************************************)
(* The values of an object on their way through a text: which conversion   *)
(* each format takes for each type, and where in memory the value that is  *)
(* scanned is stored.                                                      *)
(*                                                                         *)
(* An object is the sequence of its elements, laid out in memory as the    *)
(* compiler does, with a neighbour behind it.  A byte has ByteBits bits;   *)
(* the types have as many bytes as on a 64-bit machine.  A float or double *)
(* is a whole number with few enough significant bits; long double, whose  *)
(* conversion %LF a channel refuses, is not modelled.                      *)
(***************************************************************************)
EXTENDS Integers, Sequences, SequencesExt

CONSTANTS ByteBits,       \* bits of a byte
          MantissaBits,   \* bits of the mantissa of a double
          FloatBits,      \* and of a float
          FloatDigits,    \* decimal digits a float is printed with
          DoubleDigits,   \* and a double
          Printable,      \* the characters IOCHANNEL_ISPRINT is true of
          Backslash,      \* one of them
          Formats,        \* of "Ascii", "Json", "Matlab", "Python", "Xml"
          ValueShapes,         \* of objects: sequences of members
          ValueLengths         \* of Mem objects

ASSUME WidthsAssumption ==
  /\ ByteBits \in Nat \ {0} /\ MantissaBits \in ByteBits * 4 .. ByteBits * 8
  /\ FloatBits \in 3 .. ByteBits * 4 - 1 /\ FloatDigits \in Nat \ {0} /\ DoubleDigits \in Nat
  /\ 2^MantissaBits < 10^(DoubleDigits - 1)
  /\ Printable \subseteq 0 .. 2^(ByteBits - 1) - 1 /\ Backslash \in Printable

VARIABLES format, shape,
          source,         \* the memory of the object that is written
          memory,         \* the memory of the object that is read into, and its neighbour
          mem,            \* of a Mem object: its length and the reader's, and whether the
                          \* reader allocates; NotMem otherwise
          text,           \* tokens, one for each value
          next,           \* the next element to be written or read
          valuePhase           \* "write", "read", "done", "stopped" (ANY_REQUIRE), or "torn": the
                          \* text is not at the next value any more

valueVars == <<format, shape, source, memory, mem, text, next, valuePhase>>

Byte == 2^ByteBits

(***************************************************************************)
(* SerializeType, and the functions that serialize one value of a type or  *)
(* an array.                                                               *)
(***************************************************************************)
CharTypes == {"CHAR", "SCHAR", "UCHAR"}
RealTypes == {"FLOAT", "DOUBLE"}
Size(type) == CASE type \in CharTypes                    -> 1
                [] type \in {"SINT", "USINT"}            -> 2
                [] type \in {"INT", "UINT", "FLOAT"}     -> 4
                [] type \in {"LINT", "ULINT", "LL", "ULL", "DOUBLE"} -> 8
Signed(type) == type \in {"CHAR", "SCHAR", "SINT", "INT", "LINT", "LL"} \cup RealTypes

MinOf(type) == IF Signed(type) THEN -(2^(ByteBits * Size(type) - 1)) ELSE 0
MaxOf(type) == IF Signed(type) THEN 2^(ByteBits * Size(type) - 1) - 1
                               ELSE 2^(ByteBits * Size(type)) - 1

\* Serialize_doSerialize() of len values, which are the elements of an array or one field.
DoSerializeValue(type, len) == <<[type |-> type, len |-> len]>>

Char_serialize    == DoSerializeValue("CHAR", 1)
SChar_serialize   == DoSerializeValue("SCHAR", 1)
UChar_serialize   == DoSerializeValue("UCHAR", 1)
SInt_serialize    == DoSerializeValue("SINT", 1)
USInt_serialize   == DoSerializeValue("USINT", 1)
Int_serialize     == DoSerializeValue("INT", 1)
UInt_serialize    == DoSerializeValue("UINT", 1)
LInt_serialize    == DoSerializeValue("LINT", 1)
ULInt_serialize   == DoSerializeValue("ULINT", 1)
LL_serialize      == DoSerializeValue("LL", 1)
ULL_serialize     == DoSerializeValue("ULL", 1)
Float_serialize   == DoSerializeValue("FLOAT", 1)
Double_serialize  == DoSerializeValue("DOUBLE", 1)

CharArray_serialize(n)    == DoSerializeValue("CHAR", n)
SCharArray_serialize(n)   == DoSerializeValue("SCHAR", n)
UCharArray_serialize(n)   == DoSerializeValue("UCHAR", n)
SIntArray_serialize(n)    == DoSerializeValue("SINT", n)
USIntArray_serialize(n)   == DoSerializeValue("USINT", n)
IntArray_serialize(n)     == DoSerializeValue("INT", n)
UIntArray_serialize(n)    == DoSerializeValue("UINT", n)
LIntArray_serialize(n)    == DoSerializeValue("LINT", n)
ULIntArray_serialize(n)   == DoSerializeValue("ULINT", n)
LLArray_serialize(n)      == DoSerializeValue("LL", n)
ULLArray_serialize(n)     == DoSerializeValue("ULL", n)
FloatArray_serialize(n)   == DoSerializeValue("FLOAT", n)
DoubleArray_serialize(n)  == DoSerializeValue("DOUBLE", n)

BaseBool_serialize == Int_serialize
BaseI8_serialize   == SChar_serialize
BaseUI8_serialize  == UChar_serialize
BaseI16_serialize  == SInt_serialize
BaseUI16_serialize == USInt_serialize
BaseI32_serialize  == Int_serialize
BaseUI32_serialize == UInt_serialize
BaseI64_serialize  == LL_serialize
BaseUI64_serialize == ULL_serialize
BaseF32_serialize  == Float_serialize
BaseF64_serialize  == Double_serialize

BaseBoolArray_serialize(n) == IntArray_serialize(n)
BaseI8Array_serialize(n)   == SCharArray_serialize(n)
BaseUI8Array_serialize(n)  == UCharArray_serialize(n)
BaseI16Array_serialize(n)  == SIntArray_serialize(n)
BaseUI16Array_serialize(n) == USIntArray_serialize(n)
BaseI32Array_serialize(n)  == IntArray_serialize(n)
BaseUI32Array_serialize(n) == UIntArray_serialize(n)
BaseI64Array_serialize(n)  == LLArray_serialize(n)
BaseUI64Array_serialize(n) == ULLArray_serialize(n)
BaseF32Array_serialize(n)  == FloatArray_serialize(n)
BaseF64Array_serialize(n)  == DoubleArray_serialize(n)

Base2DPoint_serialize == BaseI32_serialize \o BaseI32_serialize
Base2DSize_serialize  == BaseI32_serialize \o BaseI32_serialize
Base2DRect_serialize  == Base2DPoint_serialize \o Base2DSize_serialize
BaseC32_serialize     == BaseF32_serialize \o BaseF32_serialize

\* STRUCT_ARRAY_SERIALIZE: one element after the other.
StructArray(n, element) == FlattenSeq([i \in 1 .. n |-> element])
Base2DPointArray_serialize(n) == StructArray(n, Base2DPoint_serialize)
Base2DRectArray_serialize(n)  == StructArray(n, Base2DRect_serialize)
Base2DSizeArray_serialize(n)  == StructArray(n, Base2DSize_serialize)
BaseC32Array_serialize(n)     == StructArray(n, BaseC32_serialize)

Base1DI8_serialize   == BaseI8_serialize
Base2DI8_serialize   == Base1DI8_serialize \o BaseI8_serialize
Base3DI8_serialize   == Base2DI8_serialize \o BaseI8_serialize
Base4DI8_serialize   == Base3DI8_serialize \o BaseI8_serialize
Base1DUI8_serialize  == BaseUI8_serialize
Base2DUI8_serialize  == Base1DUI8_serialize \o BaseUI8_serialize
Base3DUI8_serialize  == Base2DUI8_serialize \o BaseUI8_serialize
Base4DUI8_serialize  == Base3DUI8_serialize \o BaseUI8_serialize
Base1DI16_serialize  == BaseI16_serialize
Base2DI16_serialize  == Base1DI16_serialize \o BaseI16_serialize
Base3DI16_serialize  == Base2DI16_serialize \o BaseI16_serialize
Base4DI16_serialize  == Base3DI16_serialize \o BaseI16_serialize
Base1DUI16_serialize == BaseUI16_serialize
Base2DUI16_serialize == Base1DUI16_serialize \o BaseUI16_serialize
Base3DUI16_serialize == Base2DUI16_serialize \o BaseUI16_serialize
Base4DUI16_serialize == Base3DUI16_serialize \o BaseUI16_serialize
Base1DI32_serialize  == BaseI32_serialize
Base2DI32_serialize  == Base1DI32_serialize \o BaseI32_serialize
Base3DI32_serialize  == Base2DI32_serialize \o BaseI32_serialize
Base4DI32_serialize  == Base3DI32_serialize \o BaseI32_serialize
Base1DUI32_serialize == BaseUI32_serialize
Base2DUI32_serialize == Base1DUI32_serialize \o BaseUI32_serialize
Base3DUI32_serialize == Base2DUI32_serialize \o BaseUI32_serialize
Base4DUI32_serialize == Base3DUI32_serialize \o BaseUI32_serialize
Base1DF32_serialize  == BaseF32_serialize
Base2DF32_serialize  == Base1DF32_serialize \o BaseF32_serialize
Base3DF32_serialize  == Base2DF32_serialize \o BaseF32_serialize
Base4DF32_serialize  == Base3DF32_serialize \o BaseF32_serialize
Base1DF64_serialize  == BaseF64_serialize
Base2DF64_serialize  == Base1DF64_serialize \o BaseF64_serialize
Base3DF64_serialize  == Base2DF64_serialize \o BaseF64_serialize
Base4DF64_serialize  == Base3DF64_serialize \o BaseF64_serialize

\* The coordinates, then the value.
Base1DI32vF32_serialize == Base1DI32_serialize \o BaseF32_serialize
Base2DI32vF32_serialize == Base2DI32_serialize \o BaseF32_serialize
Base3DI32vF32_serialize == Base3DI32_serialize \o BaseF32_serialize
Base4DI32vF32_serialize == Base4DI32_serialize \o BaseF32_serialize

\* The length, then the buffer.
MemI8_serialize(n)   == BaseUI32_serialize \o BaseI8Array_serialize(n)
MemUI8_serialize(n)  == BaseUI32_serialize \o BaseUI8Array_serialize(n)
MemI16_serialize(n)  == BaseUI32_serialize \o BaseI16Array_serialize(n)
MemUI16_serialize(n) == BaseUI32_serialize \o BaseUI16Array_serialize(n)
MemI32_serialize(n)  == BaseUI32_serialize \o BaseI32Array_serialize(n)
MemUI32_serialize(n) == BaseUI32_serialize \o BaseUI32Array_serialize(n)
MemF32_serialize(n)  == BaseUI32_serialize \o BaseF32Array_serialize(n)
MemF64_serialize(n)  == BaseUI32_serialize \o BaseF64Array_serialize(n)
MemShapes(n) == {MemI8_serialize(n), MemUI8_serialize(n), MemI16_serialize(n),
                 MemUI16_serialize(n), MemI32_serialize(n), MemUI32_serialize(n),
                 MemF32_serialize(n), MemF64_serialize(n)}

(***************************************************************************)
(* Memory: the elements one after the other, each aligned to its size.     *)
(***************************************************************************)
ValueElements(members) ==
  FlattenSeq([m \in 1 .. Len(members) |-> [i \in 1 .. members[m].len |-> members[m].type]])

RoundUp(n, k) == ((n + k - 1) \div k) * k

Offsets(types) ==
  LET step(at, type) ==
        LET free == IF at = <<>> THEN 0 ELSE Last(at).to
            from == RoundUp(free, Size(type))
        IN  Append(at, [from |-> from, to |-> from + Size(type), type |-> type])
  IN  FoldLeft(step, <<>>, types)

ByteAt(members) == Offsets(ValueElements(members))
Extent(members) == Last(ByteAt(members)).to
Neighbour == 4               \* bytes behind the object that are looked at

BytesOf(v, n) == [i \in 0 .. n - 1 |-> (v \div Byte^i) % Byte]
ValueRead(bytes, n, signed) ==
  LET sum[i \in 0 .. n] == IF i = 0 THEN 0 ELSE sum[i - 1] + bytes[i - 1] * Byte^(i - 1)
  IN  IF signed /\ bytes[n - 1] >= Byte \div 2 THEN sum[n] - Byte^n ELSE sum[n]

Store(m, from, bytes) ==
  [i \in DOMAIN m |-> IF i - from \in DOMAIN bytes THEN bytes[i - from] ELSE m[i]]
Load(m, at) == ValueRead([i \in 0 .. Size(at.type) - 1 |-> m[at.from + i]], Size(at.type), Signed(at.type))

(***************************************************************************)
(* The conversion a format takes for a type: a quoted character, or a      *)
(* decimal numeral for a variable of so many bytes.                        *)
(***************************************************************************)
QuotedChar == [kind |-> "%qc", size |-> 1]

\* Mutant: the modifier of the short types is missing.
DecimalNoShort(type) == [kind |-> IF Signed(type) THEN "%d" ELSE "%u",
                         size |-> IF Size(type) < 4 THEN 4 ELSE Size(type)]

Decimal(type) == [kind |-> IF type \in RealTypes THEN "%e" ELSE IF Signed(type) THEN "%d" ELSE "%u",
                  size |-> IF type \in CharTypes THEN 4 ELSE Size(type)]

SerializeFormatAscii_getTypeInfo(type) == IF type = "CHAR" THEN QuotedChar ELSE Decimal(type)
SerializeFormatJson_getTypeInfo(type)  == IF type = "CHAR" THEN QuotedChar ELSE Decimal(type)
SerializeFormatXml_getTypeInfo(type)    == Decimal(type)
SerializeFormatPython_getTypeInfo(type) == Decimal(type)

Conversion(type) == CASE format = "Ascii"  -> SerializeFormatAscii_getTypeInfo(type)
                 [] format = "Json"   -> SerializeFormatJson_getTypeInfo(type)
                 [] format = "Xml"    -> SerializeFormatXml_getTypeInfo(type)
                 [] format = "Python" -> SerializeFormatPython_getTypeInfo(type)
                 [] format = "Matlab" -> Decimal(type)

(***************************************************************************)
(* Real numbers.  They have no more significant bits than the mantissa; a  *)
(* number with more is stored as the nearest of them, and of two as the    *)
(* even one, which is also how printf() leaves out digits.  A float is     *)
(* printed with 8 digits (%.7e), where it takes 9 to tell any two apart; a *)
(* double with 17 (%.16e), which are enough.                               *)
(***************************************************************************)
Magnitude(v) == IF v < 0 THEN -v ELSE v
Nearest(v, unit) ==
  LET q == Magnitude(v) \div unit
      r == Magnitude(v) % unit
      up == 2 * r > unit \/ (2 * r = unit /\ q % 2 = 1)
      n == unit * (IF up THEN q + 1 ELSE q)
  IN  IF v < 0 THEN -n ELSE n

Mantissa(type) == IF type = "FLOAT" THEN FloatBits ELSE MantissaBits
Ulp(v, bits) == IF Magnitude(v) <= 2^bits THEN 1
                ELSE CHOOSE u \in {2^i : i \in 1 .. 8 * ByteBits - bits} :
                       Magnitude(v) <= u * 2^bits /\ 2 * Magnitude(v) > u * 2^bits
RoundedTo(v, bits) == Nearest(v, Ulp(v, bits))

\* The number the printed digits stand for.
Printed(type, v) ==
  LET digits == IF type = "FLOAT" THEN FloatDigits ELSE DoubleDigits
      k == CHOOSE i \in 0 .. 9 : /\ Magnitude(v) < 10^(digits + i)
                                 /\ i > 0 => Magnitude(v) >= 10^(digits + i - 1)
  IN  IF type \in RealTypes THEN Nearest(v, 10^k) ELSE v

(***************************************************************************)
(* A quoted character that is not printable is written as its hexadecimal  *)
(* digits.  It is widened from a signed type first, so that a negative one *)
(* gets eight digits, of which two are scanned: all of them set.  Behind a *)
(* backslash only such digits are scanned, also if it is the character.    *)
(***************************************************************************)
PrintedChar(c) == IF c \in Printable THEN [kind |-> "char", value |-> c]
                  ELSE [kind |-> IF c < 0 THEN "long hex" ELSE "hex", value |-> c]

ScannedBytes(token) == CASE token.kind = "long hex" -> BytesOf(-1, 1)
                         [] token = PrintedChar(Backslash) -> <<>>
                         [] OTHER -> BytesOf(token.value, 1)

ValueToken(type, v) == IF Conversion(type).kind = "%qc" THEN PrintedChar(v)
                       ELSE [kind |-> "decimal", value |-> Printed(type, v)]

(***************************************************************************)
(* SerializeFormat*_doSerializeCharType, reading: the value is scanned     *)
(* into a copy, an int, checked against the range of the type, and stored. *)
(* A quoted character changes the first byte of the copy only.             *)
(***************************************************************************)
ScannedValue(type, token, old) ==
  IF Conversion(type).kind = "%qc"
    THEN ValueRead(Store(BytesOf(old, 4), 0, ScannedBytes(token)), 4, TRUE)
    ELSE token.value

(***************************************************************************)
(* SERIALIZECASTFROMDOUBLE_TYPE: the Matlab format scans a double and      *)
(* casts it.  A value with more bits than a mantissa is rounded, and what  *)
(* is out of the range of the type then is cast as the processor does it.  *)
(***************************************************************************)
Rounded(v) == RoundedTo(v, MantissaBits)

CastTo(type, d) == IF type \in RealTypes THEN RoundedTo(d, Mantissa(type))
                   ELSE IF d \in MinOf(type) .. MaxOf(type) THEN d ELSE MinOf(type)

CastFromDouble(at, token) ==
  memory' = Store(memory, at.from, BytesOf(CastTo(at.type, Rounded(token.value)), Size(at.type)))

\* The conversion stores as many bytes as it says, at the address it is given, a
\* real number as the next one there is.
Scanf(at, token) ==
  LET v == IF at.type \in RealTypes THEN RoundedTo(token.value, Mantissa(at.type)) ELSE token.value
  IN  memory' = Store(memory, at.from, BytesOf(v, Conversion(at.type).size))

-----------------------------------------------------------------------------
NotMem == [written |-> 0, expected |-> 0, allocates |-> FALSE]

Patterns == {"least", "below zero", "zero", "one", "greatest"}
SampleInteger(type, pattern) ==
  CASE pattern = "least"      -> MinOf(type)
    [] pattern = "below zero" -> IF Signed(type) THEN -1 ELSE MaxOf(type) - 1
    [] pattern = "zero"       -> 0
    [] pattern = "one"        -> 1
    [] pattern = "greatest"   -> MaxOf(type)

\* The greatest ones the memory has room for, and one with a mantissa that is full.
SampleReal(type, pattern) ==
  LET bits == Mantissa(type)
      great == (2^bits - 1) * 2^(ByteBits * Size(type) - 1 - bits)
  IN  CASE pattern = "least"      -> -great
        [] pattern = "below zero" -> -(3 * 2^(bits - 2) + 1) * 8
        [] pattern = "zero"       -> 0
        [] pattern = "one"        -> 1
        [] pattern = "greatest"   -> great

Sample(type, pattern) == IF type \in RealTypes THEN SampleReal(type, pattern)
                         ELSE SampleInteger(type, pattern)

\* Memory filled with two values in turn.
FilledWith(members, size, p, q) ==
  LET at == ByteAt(members)
      step(m, i) == Store(m, at[i].from,
                          BytesOf(Sample(at[i].type, IF i % 2 = 1 THEN p ELSE q), Size(at[i].type)))
  IN  FoldLeft(step, [i \in 0 .. size - 1 |-> 1], [i \in 1 .. Len(at) |-> i])

ValuesInit ==
  /\ format \in Formats
  /\ \/ shape \in ValueShapes /\ mem = NotMem
     \/ \E n \in ValueLengths :
          /\ shape \in MemShapes(n)
          /\ mem \in [written : {n}, expected : ValueLengths, allocates : BOOLEAN]
  /\ \E p, q \in Patterns :
       LET values == FilledWith(shape, Extent(shape), p, q)
       IN  source = IF mem = NotMem THEN values ELSE Store(values, 0, BytesOf(mem.written, 4))
  /\ \E old \in {"below zero", "one"} : memory = FilledWith(shape, Extent(shape) + Neighbour, old, old)
  /\ text = <<>> /\ next = 1 /\ valuePhase = "write"

NextElement ==
  IF next < Len(ByteAt(shape)) THEN next' = next + 1 /\ UNCHANGED valuePhase
  ELSE next' = 1 /\ valuePhase' = IF valuePhase = "write" THEN "read" ELSE "done"

Write ==
  /\ valuePhase = "write"
  /\ LET at == ByteAt(shape)[next] IN text' = Append(text, ValueToken(at.type, Load(source, at)))
  /\ NextElement
  /\ UNCHANGED <<format, shape, source, memory, mem>>

(***************************************************************************)
(* A value is read, a char of some formats through a copy.  The length of  *)
(* a Mem object has to be the expected one, unless a buffer is allocated   *)
(* for it.  What is read behind a torn value is left open.                 *)
(***************************************************************************)
RequireMatch(condition) == IF condition THEN NextElement ELSE valuePhase' = "stopped" /\ UNCHANGED next

ReadChar ==
  /\ valuePhase = "read" /\ format \in {"Ascii", "Json", "Xml"}
  /\ LET at == ByteAt(shape)[next]
         auxData == ScannedValue(at.type, text[next], Load(memory, at))
         fits == auxData \in MinOf(at.type) .. MaxOf(at.type)
     IN  /\ at.type \in CharTypes
         /\ memory' = IF fits THEN Store(memory, at.from, BytesOf(auxData, 1)) ELSE memory
         /\ IF fits /\ text[next].kind = "long hex" THEN valuePhase' = "torn" /\ UNCHANGED next
                                                     ELSE RequireMatch(fits)
  /\ UNCHANGED <<format, shape, source, mem, text>>

ReadValue ==
  /\ valuePhase = "read"
  /\ LET at == ByteAt(shape)[next]
     IN  /\ at.type \in CharTypes => format \in {"Matlab", "Python"}
         /\ IF format = "Matlab" THEN CastFromDouble(at, text[next]) ELSE Scanf(at, text[next])
         /\ RequireMatch(mem # NotMem /\ next = 1 /\ ~mem.allocates => text[1].value = mem.expected)
  /\ UNCHANGED <<format, shape, source, mem, text>>

ValuesNext == Write \/ ReadChar \/ ReadValue

ValuesSpec == ValuesInit /\ [][ValuesNext]_valueVars

-----------------------------------------------------------------------------
ValuesTypeOK ==
  /\ format \in Formats /\ shape \in ValueShapes \cup UNION {MemShapes(n) : n \in ValueLengths}
  /\ source \in [0 .. Extent(shape) - 1 -> 0 .. Byte - 1]
  /\ memory \in [0 .. Extent(shape) + Neighbour - 1 -> 0 .. Byte - 1]
  /\ mem \in [written : ValueLengths, expected : ValueLengths, allocates : BOOLEAN] \cup {NotMem}
  /\ next \in 1 .. Len(ByteAt(shape)) /\ Len(text) <= Len(ByteAt(shape))
  /\ valuePhase \in {"write", "read", "done", "stopped", "torn"}

\* What a format cannot carry: in Matlab an integer that is no double, in
\* Ascii and Json the backslash.
Lossy(type, v) == \/ format = "Matlab" /\ Rounded(v) # v
                  \/ format \in {"Ascii", "Json"} /\ type = "CHAR" /\ v = Backslash

(***************************************************************************)
(* Every element of an object holds after reading what it held when it was *)
(* written, at the least and the greatest value of its type as well, and   *)
(* whatever an element before it stored beyond its end (Python scans a     *)
(* char as an int), unless the format cannot carry it.  A float may come   *)
(* back as one of its two neighbours, a double may not.                    *)
(***************************************************************************)
ValuesSurvive ==
  valuePhase = "done" =>
    \A i \in DOMAIN ByteAt(shape) :
      LET at == ByteAt(shape)[i]
          v  == Load(source, at)
          r  == Load(memory, at)
      IN  \/ Lossy(at.type, v) \/ r = v
          \/ at.type = "FLOAT" /\ Magnitude(r - v) <= Ulp(v, FloatBits)

(***************************************************************************)
(* Reading an object changes no byte behind it, unless it is the Python    *)
(* format and the object ends with a char.                                 *)
(***************************************************************************)
NeighbourKeeps ==
  \/ format = "Python" /\ Last(ByteAt(shape)).type \in CharTypes
  \/ \A i \in 0 .. Neighbour - 1 : memory[Extent(shape) + i] = 1

(***************************************************************************)
(* The process is stopped by a Mem object of another length than the       *)
(* reader's, if it does not allocate the buffer, and only by that; and in  *)
(* Ascii and Json by a CHAR when it or the one it is read over is negative.*)
(***************************************************************************)
StopsOnMismatch ==
  LET mismatch == mem # NotMem /\ ~mem.allocates /\ mem.written # mem.expected
      at == ByteAt(shape)[next]
      negative == /\ format \in {"Ascii", "Json"} /\ at.type = "CHAR"
                  /\ Load(memory, at) < 0 \/ Load(source, at) < 0
  IN  /\ valuePhase \in {"stopped", "torn"} => mismatch \/ negative
      /\ valuePhase = "done" => ~mismatch

-----------------------------------------------------------------------------
(***************************************************************************)
(* Strings on their way through a text: the quoted strings of              *)
(* IOChannel_printf() and IOChannel_scanf() (%qs, and %*qs with a limit),  *)
(* which the formats Ascii, Json, Python and Matlab use, and the escape    *)
(* sequences of the format Xml.  A text is a sequence of characters.       *)
(***************************************************************************)
CONSTANTS Alphabet,       \* characters of the strings
          MaxLength,      \* of a string
          Limits          \* of %*qs

VARIABLES string,         \* the string that is written
          conversion,     \* "%qs", "%*qs" or "Xml"
          limit,          \* of %*qs
          quotedChannel,        \* the text
          result,         \* the string that was read
          quotedStage           \* "print", "scan", "done" or "not well-formed"

textVars == <<string, conversion, limit, quotedChannel, result, quotedStage>>

Quote     == "\""
Escape    == "\\"
Following == <<";", Quote>>       \* what comes behind the string in the text

(***************************************************************************)
(* Printing a quoted string: the quote and the backslash are escaped; the  *)
(* limit counts the characters that are written.                           *)
(***************************************************************************)
PrintChar(p, ch) ==
  LET escaped == ch \in {Quote, Escape}
  IN  CASE p.stopped \/ p.room = 0 -> [p EXCEPT !.stopped = TRUE]
        [] escaped /\ p.room = 1   -> [p EXCEPT !.out = Append(@, Escape), !.stopped = TRUE]
        [] escaped /\ p.room > 1   -> [p EXCEPT !.out = @ \o <<Escape, ch>>, !.room = @ - 2]
        [] OTHER                   -> [p EXCEPT !.out = Append(@, ch), !.room = @ - 1]

PrintQuoted(s, room) ==
  <<Quote>> \o FoldLeft(PrintChar, [out |-> <<>>, room |-> room, stopped |-> FALSE], s).out \o <<Quote>>

(***************************************************************************)
(* Scanning one: either quote opens it and the same one closes it; behind  *)
(* a backslash any character is taken.  The character that follows is read *)
(* before the limit is looked at.                                          *)
(***************************************************************************)
TakeChar(q) ==
  LET escape == Head(q.in) = Escape
      used   == IF escape THEN 2 ELSE 1
  IN  CASE q.in = <<>> \/ q.closed \/ q.room <= 0 -> q
        [] Head(q.in) = q.quote     -> [q EXCEPT !.closed = TRUE]
        [] escape /\ Len(q.in) = 1  -> [q EXCEPT !.in = <<>>]
        [] escape /\ q.room = 1     -> [q EXCEPT !.in = Tail(@), !.room = 0]
        [] OTHER -> [q EXCEPT !.in = SubSeq(@, used + 1, Len(@)),
                              !.out = Append(@, q.in[used]), !.room = @ - used]

\* The last character that was read is the closing quote, or is lost.
ScanQuoted(chars, room) ==
  LET start == [in |-> Tail(chars), out |-> <<>>, quote |-> Head(chars), room |-> room, closed |-> FALSE]
      after[n \in 0 .. Len(chars)] == IF n = 0 THEN start ELSE TakeChar(after[n - 1])
      end   == after[Len(chars)]
  IN  [out |-> end.out, rest |-> IF end.in = <<>> THEN <<>> ELSE Tail(end.in)]

(***************************************************************************)
(* The five predefined entities of XML.                                    *)
(***************************************************************************)
Entity == [ch \in {Quote, "'", "<", ">", "&"} |->
             CASE ch = Quote -> <<"&", "q", "u", "o", "t", ";">>
               [] ch = "'"   -> <<"&", "a", "p", "o", "s", ";">>
               [] ch = "<"   -> <<"&", "l", "t", ";">>
               [] ch = ">"   -> <<"&", "g", "t", ";">>
               [] ch = "&"   -> <<"&", "a", "m", "p", ";">>]

SerializeFormatXml_doSerializeStringCharEscaping(s) ==
  FlattenSeq([i \in 1 .. Len(s) |-> IF s[i] \in DOMAIN Entity THEN Entity[s[i]] ELSE <<s[i]>>])

\* An entity is recognized by its first letters and then compared as a whole.
TakeEntity(q) ==
  LET known == {ch \in DOMAIN Entity : IsPrefix(Entity[ch], q.in)}
  IN  IF known = {} THEN [q EXCEPT !.failed = TRUE]
      ELSE LET ch == CHOOSE c \in known : TRUE
           IN  [q EXCEPT !.in = SubSeq(@, Len(Entity[ch]) + 1, Len(@)), !.out = Append(@, ch)]

TakeXml(q) ==
  CASE q.failed \/ q.closed -> q
    [] q.in = <<>>          -> [q EXCEPT !.failed = TRUE]
    [] Head(q.in) = "<"     -> [q EXCEPT !.in = Tail(@), !.closed = TRUE]
    [] Head(q.in) = "&"     -> TakeEntity(q)
    [] OTHER                -> [q EXCEPT !.in = Tail(@), !.out = Append(@, q.in[1])]

SerializeFormatXml_doSerializeStringCharUnescaping(chars) ==
  LET start == [in |-> chars, out |-> <<>>, failed |-> FALSE, closed |-> FALSE]
      after[n \in 0 .. Len(chars) + 1] == IF n = 0 THEN start ELSE TakeXml(after[n - 1])
  IN  after[Len(chars) + 1]

-----------------------------------------------------------------------------
QuotedStrings == UNION {[1 .. n -> Alphabet] : n \in 0 .. MaxLength}
NoLimit == 2 * MaxLength + 2

TextInit ==
  /\ string \in QuotedStrings
  /\ \/ conversion \in {"%qs", "Xml"} /\ limit = NoLimit
     \/ conversion = "%*qs" /\ limit \in Limits
  /\ quotedChannel = <<>> /\ result = <<>> /\ quotedStage = "print"

PrintString ==
  /\ quotedStage = "print"
  /\ quotedChannel' = IF conversion = "Xml"
                  THEN SerializeFormatXml_doSerializeStringCharEscaping(string) \o <<"<">> \o Following
                  ELSE PrintQuoted(string, limit) \o Following
  /\ quotedStage' = "scan"
  /\ UNCHANGED <<string, conversion, limit, result>>

ScanXml ==
  /\ quotedStage = "scan" /\ conversion = "Xml"
  /\ LET end == SerializeFormatXml_doSerializeStringCharUnescaping(quotedChannel)
     IN  /\ quotedStage' = IF end.failed THEN "not well-formed" ELSE "done"
         /\ quotedChannel' = end.in
         /\ result' = end.out
  /\ UNCHANGED <<string, conversion, limit>>

ScanString ==
  /\ quotedStage = "scan" /\ conversion # "Xml"
  /\ LET end == ScanQuoted(quotedChannel, limit)
     IN  quotedChannel' = end.rest /\ result' = end.out
  /\ quotedStage' = "done"
  /\ UNCHANGED <<string, conversion, limit>>

TextNext == PrintString \/ ScanXml \/ ScanString

(***************************************************************************)
(* A string is read back as it was written, whatever quotes, backslashes   *)
(* or entities it holds, and what follows it in the text is left; with a   *)
(* limit it is cut at the same place when writing and when reading, even   *)
(* between a backslash and its character.                                  *)
(***************************************************************************)
StringsSurvive ==
  /\ quotedStage = "done" =>
       /\ quotedChannel = Following
       /\ IsPrefix(result, string)
       /\ limit = NoLimit => result = string
  /\ quotedStage # "not well-formed"

(* A value comes back as it was, or the reader is told, and the values next to*)
(* it are as they were.                                                      *)
ValuesAreFaithful ==
    /\ ValuesTypeOK
    /\ ValuesSurvive
    /\ NeighbourKeeps
    /\ StopsOnMismatch
    /\ StringsSurvive
=============================================================================
