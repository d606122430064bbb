SPECIFICATION Spec
CONSTANTS
    Parts = {"expression", "function", "scopes", "includes"}
    NB_REGS = 2
    MAX_TEMP_LOCAL_VARIABLE_NUMBER = 2
    ImmBound = 4
    LINEAR_CASES = 1
    MaxExprNodes = 3
    MaxStmtNodes = 3
    MaxLoops = 5
    MaxSteps = 200
    FrameSize = 12
    Names = {"x", "y"}
    Objects = {"x"}
    Labels = {"l"}
    MaxSyms = 6
    MaxScope = 2
    INCLUDE_STACK_SIZE = 3
    IFDEF_STACK_SIZE = 2
    MaxLines = 4
    Edges = {FALSE}
INVARIANTS
    LookupIsInnermost
    OnlyConflictsRefused
    InlineEmittedOnce
    SkippedFilesAddNothing
PROPERTIES
    ExpressionsAgree
    FunctionsAgree
CHECK_DEADLOCK FALSE
