SPECIFICATION Spec
CONSTANTS
    FileSize = 2
    Zero = 9
    MaxIO = 2
    MaxFile = 3
    MaxCount = 3
    WriteBufferSize = 2
    UngetBufferSize = 2
VIEW View
CHECK_DEADLOCK FALSE
PROPERTIES
    ImplementsStream
    BuffersAreKept
