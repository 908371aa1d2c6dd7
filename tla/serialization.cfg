SPECIFICATION MCSpec
CONSTANTS
  Configs <- MCConfigs
  MaxObjects = 2
  MaxMembers = 2
  MaxDepth = 3
  ArrayLengths = {1, 3}
  ElementCounts = {0, 2}
  MaxNesting = 4
  ColumnWrap = 2
  ByteBits = 3
  MantissaBits = 20
  FloatBits = 4
  FloatDigits = 2
  DoubleDigits = 8
  Printable = {1, 3}
  Backslash = 3
  Formats = {"Ascii", "Json", "Matlab", "Python", "Xml"}
  ValueShapes <- MCShapes
  ValueLengths = {1, 2}
  Alphabet <- MCAlphabet
  MaxLength = 3
  Limits = {1, 2, 3, 4}
  Members <- MCMembers
  RootTypes = {"Point", "Line", "base"}
  Setups <- MCSetups
  HasOptions = {"Binary"}
  SessionObjects = 2
  MaxFaults = 1
  BufferSize = 6
  TypeReference <- MCType
  NameReference <- MCName
  Opts <- MCOpts
  Foreign <- MCForeign
  ReferenceLengths = {1, 3}
  PoolSize = 3
  DefaultRoom = 2
  ElementsAtMost = 7
  Texts <- MCHeaderTexts
  CallsAtMost = 5
CHECK_DEADLOCK FALSE
INVARIANTS
    TextsAreFaithful
    ValuesAreFaithful
    FieldsAreKept
 
