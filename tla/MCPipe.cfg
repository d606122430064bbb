SPECIFICATION FairSpec
CONSTANTS
    MaxProcesses = 2
    PipeSize = 2
    CounterMod = 4
    Bytes = {0, 1}
    MaxCount = 3
PROPERTIES
    IsByteStream
    BlockedCallsReturn
