SPECIFICATION MCSpec
CONSTANTS
    k1 = k1
    k2 = k2
    k3 = k3
    Keys = {k1, k2, k3}
    Values = {d1, d2, d3}
    Null = Null
    Hash <- MCHash
    Primes <- MCPrimes
    LoadFactors = {100}
    MinSizes = {1, 2}
    Ownership <- MCOwnership
    MaxEntries = 3
    Items = {i1, i2}
    PtrSize = 2
    FirstSize = 2
    MaxItems = 5
    Threads = {t1, t2}
    Setters = {t1}
    Data = {d1, d2, d3}
    MaxElems = 3
    Nil = Nil
    Xs <- MCXs
    Ys <- MCYs
    Sides = {0, 1, 4}
    Scales <- MCScales
    Coordinates <- MCCoordinates
    ClockLimit = 4
    MaxLaps = 2
    Units <- MCUnits
    Poppers = {p1, p2}
    Pushed = {x1, x2}
    Nodes = {n1, n2, n3}
    NoNode = NoNode
VIEW MCView
SYMMETRY MCSymmetry
CHECK_DEADLOCK FALSE
INVARIANTS
    RectanglesAreRight
    
PROPERTIES
    
    PointersAreKept
    ListIsASequence
    NodesAreAQueue
