--------------------------- MODULE MCSerialization ---------------------------
(***************************************************************************)
(* Serialization in one run: a behaviour is about objects in a format,     *)
(* about a value or a string in a text, or about sessions and headers,     *)
(* while the others rest in one of their initial states.                   *)
(***************************************************************************)
EXTENDS SerializeRoundTrip, SerializeValues, SerializeSession, HeaderReferences

(***************************************************************************)
(* Instance of SerializeRoundTrip for TLC: each format under each option   *)
(* that changes its text; for Binary, writers and readers on machines of   *)
(* both byte orders, the reader taking the order from the header.          *)
(***************************************************************************)
SameData(f, data) == [format |-> f, data |-> data, readerData |-> data]

AsciiConfigs ==
  {SameData("Ascii", SerializeFormatAsciiOptions_set(SerializeFormatAsciiOptions_init, withType)) :
     withType \in BOOLEAN}

PythonConfigs ==
  {SameData("Python", SerializeFormatPythonOptions_set(SerializeFormatPythonOptions_init, s[1], s[2], s[3])) :
     s \in {<<"list", "list", "list">>, <<"dict", "dict", "dict">>,
            <<"tuple", "tuple without key", "list without key">>,
            <<"tuple without key", "dict", "tuple">>,
            <<"list without key", "tuple", "tuple without key">>}}

BinaryConfigs ==
  {LET data == SerializeFormatBinaryOptions_set(SerializeFormatBinaryOptions_init(writerIsLittle), options, TRUE)
   IN  [format |-> "Binary", data |-> data,
        readerData |-> SerializeFormatBinaryOptions_set(SerializeFormatBinaryOptions_init(readerIsLittle), HeaderOpts(data), FALSE)] :
     writerIsLittle \in {TRUE}, readerIsLittle \in BOOLEAN,
     options \in {"LITTLE_ENDIAN", "BIG_ENDIAN", "NULL", "other"}}

MCConfigs == AsciiConfigs \cup PythonConfigs \cup BinaryConfigs
               \cup {SameData("Json", SerializeFormatJsonOptions_init),
                     SameData("Matlab", SerializeFormatMatlabOptions_init),
                     SameData("Xml", SerializeFormatXmlOptions_init)}

-----------------------------------------------------------------------------
(***************************************************************************)
(* Values and strings on their way through a text, in one run: a behaviour *)
(* is one of a value, while the strings rest, or one of a string.          *)
(***************************************************************************)
MCShapes ==
  {Char_serialize, SChar_serialize, UChar_serialize, SInt_serialize, USInt_serialize,
   Int_serialize, UInt_serialize, LInt_serialize, ULInt_serialize, LL_serialize, ULL_serialize,
   CharArray_serialize(2), SCharArray_serialize(2), UCharArray_serialize(2),
   SIntArray_serialize(2), USIntArray_serialize(2), IntArray_serialize(2), UIntArray_serialize(2),
   LIntArray_serialize(2), ULIntArray_serialize(2), LLArray_serialize(2), ULLArray_serialize(2),
   BaseBoolArray_serialize(2), BaseI8Array_serialize(3), BaseUI8Array_serialize(3),
   BaseI16Array_serialize(3), BaseUI16Array_serialize(3), BaseI32Array_serialize(3),
   BaseUI32Array_serialize(3), BaseI64Array_serialize(3), BaseUI64Array_serialize(3),
   Base2DRect_serialize, Base2DPointArray_serialize(2),
   Base4DI8_serialize, Base4DUI8_serialize, Base4DI16_serialize, Base4DUI16_serialize,
   Base4DI32_serialize, Base4DUI32_serialize,
   BaseC32Array_serialize(2), Base2DRectArray_serialize(1), Base2DSizeArray_serialize(2),
   Base4DF32_serialize, Base4DF64_serialize, Base1DI32vF32_serialize, Base2DI32vF32_serialize,
   Base3DI32vF32_serialize, Base4DI32vF32_serialize,
   BaseF32Array_serialize(3), BaseF64Array_serialize(2),
   BaseUI8_serialize \o BaseI64_serialize, BaseI64_serialize \o BaseI8_serialize,
   BaseBool_serialize \o Char_serialize, Char_serialize \o BaseI16_serialize,
   BaseI8_serialize \o BaseUI16_serialize \o BaseUI64_serialize}

MCAlphabet == {"a", "\"", "'", "\\", "&", "<", ">", ";", "l", "t"}

NoString == string = <<>> /\ conversion = "%qs" /\ limit = NoLimit
            /\ quotedChannel = <<>> /\ result = <<>> /\ quotedStage = "print"
NoValue  == format = "Ascii" /\ shape = Int_serialize /\ mem = NotMem
            /\ source = FilledWith(shape, 4, "zero", "zero")
            /\ memory = FilledWith(shape, 4 + Neighbour, "one", "one")
            /\ text = <<>> /\ next = 1 /\ valuePhase = "write"

MCValuesInit == (ValuesInit /\ NoString) \/ (TextInit /\ NoValue)

MCValuesNext == \/ NoString /\ ValuesNext /\ UNCHANGED textVars
                \/ NoValue /\ TextNext /\ UNCHANGED valueVars

-----------------------------------------------------------------------------
(***************************************************************************)
(* Small sessions for TLC.  "Point" is a struct of values, "Line" has a    *)
(* struct before base types, as the serialize functions of the examples.   *)
(* A behaviour is about a session or about the header of a serializer.     *)
(***************************************************************************)
MCMembers == [Point |-> <<"value", "base">>, Line |-> <<"Point", "base", "value">>]

Both == {"Ascii", "Binary"}

Owner(modes, f, opts, known) ==
  [modes |-> modes, format |-> f, opts |-> opts, known |-> known, quick |-> FALSE, utility |-> FALSE]
Writer(modes, f, opts) == Owner({"write"} \cup modes, f, opts, Both)
Reader(modes, f)       == Owner({"read"} \cup modes, f, "", Both)

QuickWriter == [Writer({}, "Binary", "") EXCEPT !.quick = TRUE]
QuickReader == [Reader({}, "none") EXCEPT !.quick = TRUE]
FileReader  == [Reader({}, "Ascii") EXCEPT !.utility = TRUE]

Session(stream, writer, reader) == [stream |-> stream, writer |-> writer, reader |-> reader]

MCSetups ==
  {Session("buffered", Writer({"autocalc"}, "Binary", "big"), QuickReader),
   Session("buffered", Writer({"autocalc", "flush"}, "Ascii", ""), Reader({"loop"}, "Ascii")),
   Session("buffered", QuickWriter, FileReader),
   Session("memory", Writer({"autocalc"}, "Binary", ""), Reader({"loop"}, "Ascii")),
   Session("memory", Writer({"autocalc"}, "Ascii", ""), Reader({}, "none")),
   Session("memory", Writer({}, "Binary", ""), Owner({"read"}, "Ascii", "", {"Ascii"})),
   Session("memory", Writer({"noheader"}, "Ascii", ""), Reader({"noheader"}, "Ascii"))}

MCType == <<"t">>
MCName == <<"n">>
MCOpts == <<"o">>
MCForeign == {<<"t", "s">>, <<"x">>}

MCText(pairs) == [pairs |-> pairs, emptyQuotes |-> FALSE]
MCPair(reference, n) == <<reference, n>>
MCHeaderTexts ==
  {MCText(<<>>), [pairs |-> <<MCPair(MCType, 1)>>, emptyQuotes |-> TRUE],
   MCText(<<MCPair(MCType, 1), MCPair(MCName, 3)>>), MCText(<<MCPair(MCOpts, 1)>>),
   MCText(<<MCPair(MCName, 1), MCPair(MCType, 3), MCPair(MCOpts, 3)>>),
   MCText(<<MCPair(<<"x">>, 3), MCPair(MCType, 1)>>),
   MCText(<<MCPair(MCType, 1), MCPair(MCType, 3)>>),
   MCText(<<MCPair(MCType, 1), MCPair(MCOpts, 1), MCPair(MCType, 1)>>),
   MCText(<<MCPair(MCType, 1), MCPair(<<"t", "s">>, 1)>>),
   MCText(<<MCPair(<<"t", "s">>, 3), MCPair(MCType, 3)>>)}

\* The header belongs to one of the sessions.
restingSetup == CHOOSE s \in Setups : TRUE
MCSessionInit == SessionInit /\ HeaderInit
MCSessionNext ==
  \/ HeaderInit /\ SessionNext /\ UNCHANGED headerVars
  \/ setup = restingSetup /\ SessionInit /\ HeaderNext /\ UNCHANGED sessionVars

-----------------------------------------------------------------------------
restingConfig == CHOOSE c \in Configs : c.format = "Xml"

RestingRoundTrip == config = restingConfig /\ Init
RestingValues    == NoString /\ NoValue
RestingSession   == setup = restingSetup /\ MCSessionInit
MCInit == \/ Init /\ RestingValues /\ RestingSession
          \/ RestingRoundTrip /\ MCValuesInit /\ RestingSession
          \/ RestingRoundTrip /\ RestingValues /\ MCSessionInit

\* A part that rests is recognized by the variables that its first step changes.
RoundTripRests == script = <<>> /\ phase = "write" /\ config = restingConfig
ValuesRest     == valuePhase = "write" /\ quotedStage = "print" /\ next = 1 /\ RestingValues
SessionRests   == calls = 0 /\ stage = "writing" /\ faults = 0 /\ headerCalls = 0 /\ setup = restingSetup

MCNext == \/ /\ SessionRests /\ ValuesRest
             /\ Next /\ UNCHANGED <<valueVars, textVars, sessionVars, headerVars>>
          \/ /\ RoundTripRests /\ SessionRests
             /\ MCValuesNext /\ UNCHANGED <<vars, sessionVars, headerVars>>
          \/ /\ RoundTripRests /\ ValuesRest
             /\ MCSessionNext /\ UNCHANGED <<vars, valueVars, textVars>>
MCSpec == MCInit /\ [][MCNext]_<<vars, valueVars, textVars, sessionVars, headerVars>>
=============================================================================
