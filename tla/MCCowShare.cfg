SPECIFICATION Spec
CONSTANTS
    p1 = p1
    p2 = p2
    Names = 3
    Procs <- TwoProcs
    TotalPages = 6
    Frames <- MCFrames
    Alloc <- OwnNamesLowestFirst
    Values <- Binary
    FileValues <- One
    BrkLo = 1
    MmapLo = 1
    KernelLo = 2
    StackLo = 2
    VATop = 3
    TablePages = 3
    Units = 2
    BrkRequests <- None
    MaxLength = 1
    MaxLost = 0
    NoFrame = NoFrame
    Junk = Junk
SYMMETRY ProcSymmetry
INVARIANT FramesOK
PROPERTY MemoryIsPrivate
