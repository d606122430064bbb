SPECIFICATION Spec
CONSTANTS
    MaxFiles = 3
    Paths <- MCPaths
    Buckets = {0, 1}
    NameHash <- MCHash
    Dirs <- RootDir
    DirCacheEntries = 1
    Room = 1
    Handles = {1, 2}
    SelfRename = FALSE
    RemoveOpen = TRUE
    NoPath = NoPath
    Closed = Closed
    Deleted = Deleted
INVARIANT TableOK
PROPERTY IsNamespace
