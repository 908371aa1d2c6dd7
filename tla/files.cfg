SPECIFICATION MCSpec
CONSTANTS
    Names <- MCNames
    MaxDepth = 3
    Trees <- MCTrees
    Target <- MCTarget
    Makers = {m1, m2}
    ToMake <- MCToMake
    Others <- MCOthers
    MaxOther = 1
    Workers = {w1, w2}
    FilePaths = {"f", "g", "h"}
    ShortPaths = {"f", "g"}
    Calls <- MCCalls
    Inodes <- MCInodes
    Entries <- MCEntries
    Contents <- MCContents
    BlockSize = 2
    Capacity = 9
    MaxCalls = 1
    Chars = {"a", "b", "_"}
    Blank = "_"
    Replacements <- MCReplacements
    TextLength = 4
    WordLength = 2
    CommandLines <- MCCommandLines
    Descriptors <- MCDescriptors
    PathLength = 4
    Directories <- MCDirectories
    BufferLength = 2
    FileLength = 4
    Letters = {"s", "S", "m"}
    Lower <- MCLower
    PairValues <- MCPairValues
    Modes <- MCModes
    TypedLength = 4
    PairsAtMost = 2
    ModeLength = 4
    NumberLength = 5
CHECK_DEADLOCK FALSE

    
    
    
PROPERTIES
    
    CopiesAreSafe
    ArgumentsAreTaken
