SPECIFICATION MCSpec
CONSTANTS
    Channels = {c1, c2}
    Places = {c1, "key", "name"}
    Size = 2
    MaxBytes = 2
    UngetSize = 1
    Closings = {"none"}
    MaxRead = 2
    Careless = FALSE
    Zero = Zero
    PluginChannels = {f1}
    Serializers = {s1}
    PluginNames = {"Ascii", "ascii", "Lib", "Non"}
    BuiltIn = {"Ascii"}
    ProgramSymbols = {"ascii"}
    LibrarySymbols = {"Lib"}
    OwnPlugins = {"Lib"}
    SameInList <- MCSame
    MaxAdded = 2
    TextFormats <- MCTextFormats
    TextChars <- MCTextChars
    Arguments <- MCArguments
    TextAtMost = 3
    Behind <- MCBehind
    Lines <- MCLines
    LineRoom = {1, 2, 3}
    ReadsAtMost = 2
VIEW MCView
CHECK_DEADLOCK FALSE
INVARIANT TextsAreScanned
PROPERTIES
    MemoryIsAStream
    PluginsAreKept
