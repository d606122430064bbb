SPECIFICATION Spec
CONSTANTS
    p1 = p1
    p2 = p2
    Names = 2
    Procs <- OneProc
    TotalPages = 8
    Frames <- MCFrames
    Alloc <- OwnNamesLowestFirst
    Values <- Binary
    FileValues <- One
    BrkLo = 1
    MmapLo = 3
    KernelLo = 5
    StackLo = 6
    VATop = 8
    TablePages = 3
    Units = 2
    BrkRequests <- BrkRange
    MaxLength = 2
    MaxLost = 8
    NoFrame = NoFrame
    Junk = Junk
INVARIANT FramesOK
