SPECIFICATION Spec
CONSTANTS
    MaxProcesses = 3
    MaxPid = 5
    BootProcs = 1
    ExitCodes <- MCExitCodes
    r1 = r1
    r2 = r2
    r3 = r3
    r4 = r4
    Roots <- MCRoots
    NoRoot = NoRoot
SYMMETRY RootSymmetry
INVARIANTS
    ActiveRootOwn
    NoMutualWait
PROPERTIES
    ContextKept
    Lifecycle
    ImplementsDispatch
