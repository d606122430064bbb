SPECIFICATION MCSpec
CONSTANTS
    Readers = {1, 2, 3}
    LineSize = 4
    Chars = {"x"}
    ByteMax = 2
    MaxCount = 2
    Word = 16
    Junk = Junk
    StepMax = 4
    BatchSizes = {3}
    TimeAdvances = {2, 4}
    Procs = {1, 2}
    Delta = 33
    TICKS_PER_SWITCH = 1
    TOTAL_SWITCHES = 2
    Roots = {1, 2}
    VPages = {0, 1}
    Slots = 1
    EditedRoots = {1}
    UART_CAP = 2
    CounterMod = 4
    MaxBytes = 6
    Urls = {"u", "v"}
    MaxFetches = 2
INVARIANTS
    
    ContextsKept
    TimerOnTime
    CachesFresh
    RingsAreQueues
    FetchAnswersOwn
PROPERTIES
    EofHonest
    BootConcludes
    FetchReturns
CHECK_DEADLOCK FALSE
